---- MODULE Spec2Model ----
(***************************************************************************)
(* A model of three components of the workspace script execution engine:   *)
(*   - CircularBuffer<T>            (services/circularBuffer)              *)
(*   - LocalBackgroundHandle        (runtime/LocalBackgroundHandle.ts)     *)
(*   - runWorkspaceScript           (services/scriptRunner)                *)
(* Each component has its own specification (SpecBuffer, SpecEvents,       *)
(* SpecTerminate, SpecRunner) over its own variables; the variables of the *)
(* other components stay at their initial values.                          *)
(***************************************************************************)
EXTENDS Integers, Sequences, FiniteSets, TLC

(***************************************************************************)
(* Bounds of the model.                                                    *)
(***************************************************************************)
\* largest capacity a CircularBuffer is constructed with
MaxCap == 3
\* most pushes since construction or the last clear
MaxPushes == 5
\* most clear() calls on one buffer
MaxClears == 1

\* the items pushed (the code never inspects an item)
Items == {"x", "y"}

\* most calls (registrations and _emit calls together) on one handle
MaxEvents == 6

\* most terminate() calls on one handle
MaxTerminateCalls == 2
\* the last instant of the clock, in seconds
MaxTime == 3

\* longest script name, in characters
MaxNameLen == 2

\* longest argument of a command line, in characters
MaxArgLen == 2

\* emit and registration calls made on a terminated handle
MaxHandleOps == 1

\* the output lines (the code never inspects a line)
Lines == {"a", "b"}
\* the exit codes
ExitCodes == {0, 1}

VARIABLES
  \* ---- CircularBuffer ----
  capacity,    \* constructor argument (readonly)
  buffer,      \* the backing array: [0 .. length-1 -> item or Hole]
  head,        \* index of the oldest item
  tail,        \* index where the next item is written
  size,        \* current number of items
  pushed,      \* history: the items pushed since construction / last clear
  clears       \* history: number of clear() calls

bufVars == <<capacity, buffer, head, tail, size, pushed, clears>>

VARIABLES
  \* ---- LocalBackgroundHandle: event channels ----
  stdoutCallback,   \* registered callback (NoCallback: undefined)
  stderrCallback,
  exitCallback,
  pendingStdout,    \* lines buffered before a callback is registered
  pendingStderr,
  pendingExitCode,  \* buffered exit code (NoExitCode: undefined)
  emittedStdout,    \* history: lines passed to _emitStdout, in call order
  emittedStderr,
  emittedExit,      \* history: codes passed to _emitExit, in call order
  deliveredStdout,  \* history: callback invocations, in call order
  deliveredStderr,
  deliveredExit,
  regStdout,        \* history: per onStdout call, Len(emittedStdout) then
  regStderr,
  regExit

evVars == <<stdoutCallback, stderrCallback, exitCallback,
            pendingStdout, pendingStderr, pendingExitCode,
            emittedStdout, emittedStderr, emittedExit,
            deliveredStdout, deliveredStderr, deliveredExit,
            regStdout, regStderr, regExit>>

VARIABLES
  \* ---- LocalBackgroundHandle: terminate() and the child process ----
  terminated,       \* the handle's terminated flag
  pid,              \* disposable.underlying.pid (NoPid: undefined)
  childExitCode,    \* child.exitCode (NullCode: null)
  childSignalCode,  \* child.signalCode ("null": null)
  groupGone,        \* the OS has no process group -pid (never had, or no more)
  tcall,            \* per terminate() call: where it is, and its timer
  kills,            \* history: the process.kill calls, in call order
  now               \* the clock, in seconds

termVars == <<terminated, pid, childExitCode, childSignalCode, groupGone,
              tcall, kills, now>>

VARIABLES
  \* ---- runWorkspaceScript: one call, its runtime and its engine ----
  rpc,                \* where the call is (which await it is at)
  windows,            \* the runtime's paths use the separator \ (else /)
  scriptName,         \* argument
  args,               \* argument
  overflowPolicy,     \* options.overflowPolicy, defaulted
  persistentTempDir,  \* options.persistentTempDir
  resolvedScriptPath, \* local
  resolvedScriptsDir, \* local
  resolvedFrom,       \* history: which try block set the two locals
  statResult,         \* history: what the stat of step 2 answered
  tempDirResult,      \* local: what the allocation command returned
  command,            \* local: the command line for the engine
  runtimeTempDir,     \* local
  skipCleanup,        \* local
  cleanupScheduled,   \* local
  result,             \* what the call returned (or that it threw)
  ops,                \* history: the kinds of runtime operation performed
  engineCalls,        \* history: the bashTool.execute calls
  toolResult,         \* what the engine returned
  execError,          \* what bashTool.execute threw (the catch's variable)
  rmCommands,         \* the rm -rf commands issued and not yet run
  tempDirsOnDisk      \* the runtime's file system: the temp directories

VARIABLES
  \* ---- a second runWorkspaceScript call on the same runtime ----
  other               \* its position, options and temp-directory locals

otherVars == <<other>>

VARIABLES
  \* ---- thinking policy (browser/utils/thinking/policy.ts) ----
  modelString,        \* the model the level is enforced for
  modelsData,         \* models.json: lookup key -> the entry's supports_reasoning
  requested,          \* the thinking level asked for
  enforced            \* history: the results of enforceThinkingPolicy, in order

thinkingVars == <<modelString, modelsData, requested, enforced>>

VARIABLES
  \* ---- draft workspace settings (hooks/useDraftWorkspaceSettings.ts) ----
  branches,           \* hook argument: the branches of the project
  recommendedTrunk,   \* hook argument: the backend's recommendation or Null
  customTrunkBranch,  \* persisted state (getTrunkBranchKey)
  trunkSelection,     \* persisted state (getTrunkSelectionKey)
  branchLoads,        \* history: number of times the arguments changed
  controlsUsed        \* history: number of choices made in the controls

draftVars == <<branches, recommendedTrunk, customTrunkBranch, trunkSelection,
               branchLoads, controlsUsed>>

runVars == <<rpc, windows, scriptName, args, overflowPolicy, persistentTempDir,
             resolvedScriptPath, resolvedScriptsDir, resolvedFrom,
             statResult, tempDirResult, command,
             runtimeTempDir, skipCleanup, cleanupScheduled, result, ops,
             engineCalls, toolResult, execError, rmCommands,
                 tempDirsOnDisk>>

vars == <<bufVars, evVars, termVars, runVars, otherVars, thinkingVars,
          draftVars>>

\* the variables of the other components
notBufVars == <<evVars, termVars, runVars, otherVars, thinkingVars, draftVars>>
notEvVars == <<bufVars, termVars, runVars, otherVars, thinkingVars, draftVars>>
notTermVars ==
  <<bufVars, evVars, runVars, otherVars, thinkingVars, draftVars>>
notRunVars ==
  <<bufVars, evVars, termVars, otherVars, thinkingVars, draftVars>>
notThinkingVars == <<bufVars, evVars, termVars, runVars, otherVars, draftVars>>
notDraftVars ==
  <<bufVars, evVars, termVars, runVars, otherVars, thinkingVars>>

(***************************************************************************)
(* CircularBuffer                                                          *)
(***************************************************************************)
\* an array slot that was never written (new Array(capacity) has only holes)
Hole == "<hole>"

\* JavaScript's NaN, the value of x % 0
NaN == -1

\* JavaScript's a % c on the non-negative integers and NaN
JsMod(a, c) == IF a = NaN \/ c = 0 THEN NaN ELSE a % c

\* new Array<T>(capacity): capacity holes
NewArray(cap) == [i \in 0 .. cap - 1 |-> Hole]

\* the array's length property
ArrayLength(arr) == Cardinality(DOMAIN arr)

\* arr[i] = item: an index past the end grows the array; the key NaN is an
\* ordinary property and leaves the elements and the length alone
ArrayStore(arr, i, item) ==
  IF i = NaN THEN arr
  ELSE [k \in (DOMAIN arr) \cup (0 .. i) |->
          IF k = i THEN item ELSE IF k \in DOMAIN arr THEN arr[k] ELSE Hole]

\* arr[i]: undefined (a hole) outside the elements
ArrayLoad(arr, i) == IF i \in DOMAIN arr THEN arr[i] ELSE Hole

BufferInit ==
  /\ capacity \in 0 .. MaxCap
  /\ buffer = NewArray(capacity)
  /\ head = 0
  /\ tail = 0
  /\ size = 0
  /\ pushed = <<>>
  /\ clears = 0

\* faulty variant: the size grows on every push
PushSizeUnbounded(sz, cap) == sz + 1

\* the size after a push
PushSize(sz, cap) == IF sz < cap THEN sz + 1 ELSE sz

\* faulty variant: a push at capacity leaves head where it is
PushHeadStuck(hd, sz, cap) == hd

\* the head after a push
PushHead(hd, sz, cap) == IF sz < cap THEN hd ELSE JsMod(hd + 1, cap)

\* faulty variant: the tail is advanced without wrapping
PushTailUnwrapped(tl, cap) == tl + 1

\* the tail after a push
PushTail(tl, cap) == JsMod(tl + 1, cap)

push(item) ==
  /\ Len(pushed) < MaxPushes
  /\ buffer' = ArrayStore(buffer, tail, item)
  /\ tail' = PushTail(tail, capacity)
  /\ size' = PushSize(size, capacity)
  /\ head' = PushHead(head, size, capacity)
  /\ pushed' = Append(pushed, item)
  /\ UNCHANGED <<capacity, clears>>
  /\ UNCHANGED notBufVars

\* the index read at step i of toArray's loop: head advanced i times modulo
\* the capacity
RECURSIVE ToArrayIdx(_, _, _)
ToArrayIdx(hd, cap, i) ==
  IF i = 0 THEN hd ELSE JsMod(ToArrayIdx(hd, cap, i - 1) + 1, cap)

\* faulty variant: toArray walks from the newest item to the oldest
toArrayNewestFirst(arr, hd, sz, cap) ==
  IF sz = 0 THEN <<>>
  ELSE [i \in 1 .. sz |-> ArrayLoad(arr, ToArrayIdx(hd, cap, sz - i))]

toArray(arr, hd, sz, cap) ==
  IF sz = 0 THEN <<>>
  ELSE [i \in 1 .. sz |-> ArrayLoad(arr, ToArrayIdx(hd, cap, i - 1))]

length == size

isEmpty == size = 0

isFull == size = capacity

\* faulty variant: clear() leaves head where it is
clearKeepsHead ==
  /\ clears < MaxClears
  /\ tail' = 0
  /\ size' = 0
  /\ pushed' = <<>>
  /\ clears' = clears + 1
  /\ UNCHANGED <<capacity, buffer, head>>
  /\ UNCHANGED notBufVars

clear ==
  /\ clears < MaxClears
  /\ head' = 0
  /\ tail' = 0
  /\ size' = 0
  /\ pushed' = <<>>
  /\ clears' = clears + 1
  /\ UNCHANGED <<capacity, buffer>>
  /\ UNCHANGED notBufVars

BufferNext ==
  \/ \E item \in Items : push(item)
  \/ clear

(***************************************************************************)
(* CircularBuffer: properties                                              *)
(***************************************************************************)
\* the last n elements of s
LastN(s, n) == SubSeq(s, Len(s) - n + 1, Len(s))

\* C9: with capacity C >= 1, after n >= C pushes and no clear in between,
\* toArray() is exactly the last C pushed items in push order, length is C
\* and isFull() is true.
C9_LastCItems ==
  (capacity >= 1 /\ Len(pushed) >= capacity) =>
    /\ toArray(buffer, head, size, capacity) = LastN(pushed, capacity)
    /\ length = capacity
    /\ isFull

\* a buffer of capacity 3 that wrapped: 5 pushes, the evicted and the kept
\* items differ
C9_Witness ==
  /\ capacity = 3
  /\ Len(pushed) = 5
  /\ pushed[2] # pushed[3]
  /\ toArray(buffer, head, size, capacity) = SubSeq(pushed, 3, 5)

\* C10: in every reachable state, 0 <= size <= capacity.
C10_SizeBounded == 0 <= size /\ size <= capacity

\* a full buffer that was pushed to again, after an earlier clear
C10_Witness ==
  /\ capacity >= 2
  /\ clears >= 1
  /\ Len(pushed) > capacity
  /\ size = capacity

\* C11: with capacity C and n < C pushes since construction or the last
\* clear(), toArray() is the n pushed items oldest first, length is n,
\* isFull() is false and isEmpty() is true exactly when n = 0; from the C-th
\* push on isFull() is true.
C11_PartlyFilled ==
  /\ Len(pushed) < capacity =>
       /\ toArray(buffer, head, size, capacity) = pushed
       /\ length = Len(pushed)
       /\ ~isFull
       /\ (isEmpty <=> Len(pushed) = 0)
  /\ Len(pushed) >= capacity => isFull

\* a buffer of capacity 3 that was full, was cleared and then pushed to twice
\* with different items: the third slot still holds an item of before
C11_Witness ==
  /\ capacity = 3
  /\ clears = 1
  /\ Len(pushed) = 2
  /\ pushed[1] # pushed[2]
  /\ ArrayLoad(buffer, 2) # Hole
  /\ ~isFull

\* the fields of a buffer as one value
BufState == [buffer |-> buffer, head |-> head, tail |-> tail, size |-> size]

\* the fields of a newly constructed buffer
NewBuffer(cap) == [buffer |-> NewArray(cap), head |-> 0, tail |-> 0, size |-> 0]

\* push(item) as a function of the fields
PushOn(st, item, cap) ==
  [buffer |-> ArrayStore(st.buffer, st.tail, item),
   tail |-> JsMod(st.tail + 1, cap),
   size |-> PushSize(st.size, cap),
   head |-> PushHead(st.head, st.size, cap)]

\* the pushes of seq, in order
RECURSIVE PushAll(_, _, _)
PushAll(st, seq, cap) ==
  IF seq = <<>> THEN st ELSE PushAll(PushOn(st, Head(seq), cap), Tail(seq), cap)

\* what the public methods of a buffer return
Observe(st, cap) ==
  [toArray |-> toArray(st.buffer, st.head, st.size, cap),
   length |-> st.size,
   isEmpty |-> st.size = 0,
   isFull |-> st.size = cap]

\* C12: after clear() the buffer answers toArray(), length, isEmpty() and
\* isFull() as a newly constructed buffer of the same capacity does, at once
\* (length 0, empty toArray()) and after every sequence of pushes.  (The
\* first conjunct ties the comparison to the buffer itself: without a clear
\* the fields are those of a new buffer after the same pushes.)
C12_ClearedEqualsNew ==
  /\ clears = 0 => BufState = PushAll(NewBuffer(capacity), pushed, capacity)
  /\ clears >= 1 =>
       /\ Observe(BufState, capacity)
            = Observe(PushAll(NewBuffer(capacity), pushed, capacity), capacity)
       /\ pushed = <<>> =>
            /\ length = 0
            /\ isEmpty
            /\ toArray(buffer, head, size, capacity) = <<>>

\* a cleared buffer that was pushed to again and whose backing array differs
\* from that of a new buffer after the same pushes
C12_Witness ==
  /\ clears = 1
  /\ capacity >= 2
  /\ Len(pushed) >= 1
  /\ buffer # PushAll(NewBuffer(capacity), pushed, capacity).buffer

\* a step that is a push
IsPushStep == Len(pushed') = Len(pushed) + 1

\* C13 (as stated): the backing array has exactly C slots in every reachable
\* state, and a push at capacity writes only the slot of the oldest item and
\* advances head by one modulo C.
C13_StoreKeepsCSlots ==
  /\ [](ArrayLength(buffer) = capacity)
  /\ [][(IsPushStep /\ size = capacity) =>
          /\ DOMAIN buffer' = DOMAIN buffer
          /\ \A k \in DOMAIN buffer : k # head => buffer'[k] = buffer[k]
          /\ head' = JsMod(head + 1, capacity)]_vars

\* C13 for the capacities from 1 on: there the statement holds
C13_StoreKeepsCSlotsFromOne ==
  /\ [](capacity >= 1 => ArrayLength(buffer) = capacity)
  /\ [][(capacity >= 1 /\ IsPushStep /\ size = capacity) =>
          /\ DOMAIN buffer' = DOMAIN buffer
          /\ \A k \in DOMAIN buffer : k # head => buffer'[k] = buffer[k]
          /\ buffer'[head] = pushed'[Len(pushed')]
          /\ head' = (head + 1) % capacity]_vars

\* a buffer constructed with capacity 0 after a push: the array has one slot
C13_Witness ==
  /\ capacity = 0
  /\ Len(pushed) >= 1
  /\ ArrayLength(buffer) = 1

\* C38: in every reachable state of a buffer of capacity C >= 1, head and
\* tail are indices of the store, 0 <= head < C and 0 <= tail < C, and the
\* tail is size places after the head: tail = (head + size) mod C.
C38_IndicesInRange ==
  capacity >= 1 =>
    /\ 0 <= head /\ head < capacity
    /\ 0 <= tail /\ tail < capacity
    /\ tail = (head + size) % capacity

\* a buffer of capacity 3 after 5 pushes: full, head and tail both wrapped
\* round to index 2
C38_Witness ==
  /\ capacity = 3
  /\ Len(pushed) = 5
  /\ size = 3
  /\ head = 2
  /\ tail = 2

(***************************************************************************)
(* LocalBackgroundHandle: event channels                                   *)
(* Every method runs to completion (JavaScript is single-threaded and the  *)
(* methods do not await); callbacks return normally and do not call back   *)
(* into the handle.                                                        *)
(***************************************************************************)
\* a callback field that is undefined
NoCallback == 0

\* pendingExitCode when it is undefined
NoExitCode == -1

\* the number of onX and _emitX calls made so far
EventCount ==
  Len(emittedStdout) + Len(emittedStderr) + Len(emittedExit)
    + Len(regStdout) + Len(regStderr) + Len(regExit)

EventsInit ==
  /\ stdoutCallback = NoCallback
  /\ stderrCallback = NoCallback
  /\ exitCallback = NoCallback
  /\ pendingStdout = <<>>
  /\ pendingStderr = <<>>
  /\ pendingExitCode = NoExitCode
  /\ emittedStdout = <<>>
  /\ emittedStderr = <<>>
  /\ emittedExit = <<>>
  /\ deliveredStdout = <<>>
  /\ deliveredStderr = <<>>
  /\ deliveredExit = <<>>
  /\ regStdout = <<>>
  /\ regStderr = <<>>
  /\ regExit = <<>>

\* one callback invocation: callback cb called with value v, from a
\* registration's flush loop ("flush") or from an _emit call ("direct")
Call(cb, v, via) == [cb |-> cb, value |-> v, via |-> via]

\* faulty variant: the flush walks the buffer from its end
FlushLinesReversed(pending, cb) ==
  [i \in 1 .. Len(pending) |->
     Call(cb, pending[Len(pending) + 1 - i], "flush")]

\* for (const line of pending) callback(line)
FlushLines(pending, cb) ==
  [i \in 1 .. Len(pending) |-> Call(cb, pending[i], "flush")]

\* faulty variant: the flush leaves the buffer as it is
AfterFlushKept(pending) == pending

\* the pending buffer after a registration's flush
AfterFlush(pending) == <<>>

\* faulty variant: the first callback registered stays the one in place
NewCallbackKeepsFirst(regs) == 1

\* the callback registered by the n-th registration on a channel
NewCallback(regs) == Len(regs) + 1

\* faulty variant: a registration on stdout empties the stderr buffer too
onStdoutDropsStderr ==
  /\ EventCount < MaxEvents
  /\ stdoutCallback' = NewCallback(regStdout)
  /\ deliveredStdout' =
       deliveredStdout \o FlushLines(pendingStdout, NewCallback(regStdout))
  /\ pendingStdout' = AfterFlush(pendingStdout)
  /\ pendingStderr' = AfterFlush(pendingStderr)
  /\ regStdout' = Append(regStdout, Len(emittedStdout))
  /\ UNCHANGED <<stderrCallback, exitCallback, pendingExitCode,
                 emittedStdout, emittedStderr, emittedExit,
                 deliveredStderr, deliveredExit, regStderr, regExit>>
  /\ UNCHANGED notEvVars

onStdout ==
  /\ EventCount < MaxEvents
  /\ stdoutCallback' = NewCallback(regStdout)
  /\ deliveredStdout' =
       deliveredStdout \o FlushLines(pendingStdout, NewCallback(regStdout))
  /\ pendingStdout' = AfterFlush(pendingStdout)
  /\ regStdout' = Append(regStdout, Len(emittedStdout))
  /\ UNCHANGED <<stderrCallback, exitCallback, pendingStderr, pendingExitCode,
                 emittedStdout, emittedStderr, emittedExit,
                 deliveredStderr, deliveredExit, regStderr, regExit>>
  /\ UNCHANGED notEvVars

onStderr ==
  /\ EventCount < MaxEvents
  /\ stderrCallback' = NewCallback(regStderr)
  /\ deliveredStderr' =
       deliveredStderr \o FlushLines(pendingStderr, NewCallback(regStderr))
  /\ pendingStderr' = AfterFlush(pendingStderr)
  /\ regStderr' = Append(regStderr, Len(emittedStderr))
  /\ UNCHANGED <<stdoutCallback, exitCallback, pendingStdout, pendingExitCode,
                 emittedStdout, emittedStderr, emittedExit,
                 deliveredStdout, deliveredExit, regStdout, regExit>>
  /\ UNCHANGED notEvVars

\* the invocations made by onExit's flush
FlushExit(pendingCode, cb) ==
  IF pendingCode # NoExitCode THEN <<Call(cb, pendingCode, "flush")>> ELSE <<>>

\* faulty variant: onExit leaves pendingExitCode as it is
AfterFlushExitKept(pendingCode) == pendingCode

\* pendingExitCode after onExit
AfterFlushExit(pendingCode) == NoExitCode

onExit ==
  /\ EventCount < MaxEvents
  /\ exitCallback' = NewCallback(regExit)
  /\ deliveredExit' =
       deliveredExit \o FlushExit(pendingExitCode, NewCallback(regExit))
  /\ pendingExitCode' = AfterFlushExit(pendingExitCode)
  /\ regExit' = Append(regExit, Len(emittedExit))
  /\ UNCHANGED <<stdoutCallback, stderrCallback, pendingStdout, pendingStderr,
                 emittedStdout, emittedStderr, emittedExit,
                 deliveredStdout, deliveredStderr, regStdout, regStderr>>
  /\ UNCHANGED notEvVars

\* whether an _emit call delivers directly (a callback is registered)
DeliversDirectly(callback) == callback # NoCallback

_emitStdout(line) ==
  /\ EventCount < MaxEvents
  /\ emittedStdout' = Append(emittedStdout, line)
  /\ IF DeliversDirectly(stdoutCallback)
       THEN /\ deliveredStdout' =
                 Append(deliveredStdout, Call(stdoutCallback, line, "direct"))
            /\ UNCHANGED pendingStdout
       ELSE /\ pendingStdout' = Append(pendingStdout, line)
            /\ UNCHANGED deliveredStdout
  /\ UNCHANGED <<stdoutCallback, stderrCallback, exitCallback,
                 pendingStderr, pendingExitCode, emittedStderr, emittedExit,
                 deliveredStderr, deliveredExit, regStdout, regStderr, regExit>>
  /\ UNCHANGED notEvVars

_emitStderr(line) ==
  /\ EventCount < MaxEvents
  /\ emittedStderr' = Append(emittedStderr, line)
  /\ IF DeliversDirectly(stderrCallback)
       THEN /\ deliveredStderr' =
                 Append(deliveredStderr, Call(stderrCallback, line, "direct"))
            /\ UNCHANGED pendingStderr
       ELSE /\ pendingStderr' = Append(pendingStderr, line)
            /\ UNCHANGED deliveredStderr
  /\ UNCHANGED <<stdoutCallback, stderrCallback, exitCallback,
                 pendingStdout, pendingExitCode, emittedStdout, emittedExit,
                 deliveredStdout, deliveredExit, regStdout, regStderr, regExit>>
  /\ UNCHANGED notEvVars

_emitExit(exitCode) ==
  /\ EventCount < MaxEvents
  /\ emittedExit' = Append(emittedExit, exitCode)
  /\ IF DeliversDirectly(exitCallback)
       THEN /\ deliveredExit' =
                 Append(deliveredExit, Call(exitCallback, exitCode, "direct"))
            /\ UNCHANGED pendingExitCode
       ELSE /\ pendingExitCode' = exitCode
            /\ UNCHANGED deliveredExit
  /\ UNCHANGED <<stdoutCallback, stderrCallback, exitCallback,
                 pendingStdout, pendingStderr, emittedStdout, emittedStderr,
                 deliveredStdout, deliveredStderr, regStdout, regStderr, regExit>>
  /\ UNCHANGED notEvVars

EventsNext ==
  \/ onStdout
  \/ onStderr
  \/ onExit
  \/ \E line \in Lines : _emitStdout(line)
  \/ \E line \in Lines : _emitStderr(line)
  \/ \E exitCode \in ExitCodes : _emitExit(exitCode)

(***************************************************************************)
(* LocalBackgroundHandle: properties of the event channels                 *)
(***************************************************************************)
\* the values passed to the callbacks, in invocation order
Values(delivered) == [i \in 1 .. Len(delivered) |-> delivered[i].value]

\* On a line channel with at least one registration, where k events were
\* emitted before the first registration: the first k callback invocations
\* are the first registration's flush of exactly those k events, in emission
\* order, and no later invocation is a flush (none of them is delivered again).
EarlyLinesFlushedOnce(emitted, delivered, reg) ==
  Len(reg) >= 1 =>
    /\ Len(delivered) >= reg[1]
    /\ \A i \in 1 .. reg[1] : delivered[i] = Call(1, emitted[i], "flush")
    /\ \A i \in reg[1] + 1 .. Len(delivered) : delivered[i].via = "direct"

\* C3 as stated, for all three channels alike (the exit channel treated as a
\* queue of events like the two line channels).
C3_AllChannelsAsStated ==
  /\ EarlyLinesFlushedOnce(emittedStdout, deliveredStdout, regStdout)
  /\ EarlyLinesFlushedOnce(emittedStderr, deliveredStderr, regStderr)
  /\ EarlyLinesFlushedOnce(emittedExit, deliveredExit, regExit)

\* C3 (amended): on stdout and on stderr, all lines emitted before the first
\* registration are delivered to the first callback at its registration, in
\* emission order, each exactly once.  On the exit channel the buffer is one
\* slot: if k >= 1 exit codes were emitted before the first registration,
\* exactly the last of them is delivered, once, at the first registration
\* (so the one exit code of a process that exits once is delivered exactly
\* once); if none was, the registration delivers nothing.
C3_EarlyEventsFlushedOnce ==
  /\ EarlyLinesFlushedOnce(emittedStdout, deliveredStdout, regStdout)
  /\ EarlyLinesFlushedOnce(emittedStderr, deliveredStderr, regStderr)
  /\ Len(regExit) >= 1 =>
       /\ regExit[1] >= 1 =>
            /\ Len(deliveredExit) >= 1
            /\ deliveredExit[1] = Call(1, emittedExit[regExit[1]], "flush")
       /\ \A i \in 1 .. Len(deliveredExit) :
            deliveredExit[i].via = "flush" => (i = 1 /\ regExit[1] >= 1)

\* two different stdout lines and one exit code emitted before the first
\* registrations, flushed, and the stdout callback registered a second time
C3_Witness ==
  /\ Len(regStdout) = 2
  /\ regStdout[1] = 2
  /\ emittedStdout[1] # emittedStdout[2]
  /\ Len(deliveredStdout) = 2
  /\ Len(regExit) = 1
  /\ regExit[1] = 1
  /\ Len(deliveredExit) = 1

\* C4: on stdout, and likewise on stderr, once a callback has been
\* registered the sequence of lines delivered to callbacks equals the
\* sequence of lines emitted so far (nothing lost, duplicated or reordered).
C4_DeliveredEqualsEmitted ==
  /\ Len(regStdout) >= 1 => Values(deliveredStdout) = emittedStdout
  /\ Len(regStderr) >= 1 => Values(deliveredStderr) = emittedStderr

\* stdout: a line buffered, a callback registered, a different line
\* delivered directly, a second callback registered, a third line delivered
C4_Witness ==
  /\ Len(regStdout) = 2
  /\ regStdout = <<1, 2>>
  /\ Len(emittedStdout) = 3
  /\ emittedStdout[1] # emittedStdout[2]
  /\ deliveredStdout[1].via = "flush"
  /\ deliveredStdout[3] = Call(2, emittedStdout[3], "direct")

\* C5 as stated: the exit callbacks are invoked at most once in total, over
\* any sequence of _emitExit and onExit calls.
C5_AtMostOneExitDelivery == Len(deliveredExit) <= 1

\* C5 (amended): the exit callbacks are never invoked more often than
\* _emitExit was called; in particular, when _emitExit is called at most
\* once (the process exits once) the exit code is delivered at most once,
\* whatever the number of onExit registrations.
C5_ExitDeliveredOncePerEmit ==
  /\ Len(deliveredExit) <= Len(emittedExit)
  /\ Len(emittedExit) <= 1 => Len(deliveredExit) <= 1

\* one exit code emitted before any registration, then two registrations:
\* delivered once, to the first callback only
C5_Witness ==
  /\ emittedExit # <<>>
  /\ regExit = <<1, 1>>
  /\ Len(deliveredExit) = 1
  /\ deliveredExit[1].cb = 1

\* the state of one channel: its callback, its buffer and its history
StdoutChannel ==
  <<stdoutCallback, pendingStdout, emittedStdout, deliveredStdout, regStdout>>

StderrChannel ==
  <<stderrCallback, pendingStderr, emittedStderr, deliveredStderr, regStderr>>

ExitChannel ==
  <<exitCallback, pendingExitCode, emittedExit, deliveredExit, regExit>>

\* C30: the three channels are independent: a registration on one channel
\* delivers only that channel's buffered events (as many invocations as
\* were buffered there) and leaves the callbacks, buffers and deliveries of
\* the other two as they are; an emit on one channel changes no other
\* channel.
C30_ChannelsIndependent ==
  [][/\ StdoutChannel' # StdoutChannel =>
          /\ UNCHANGED <<StderrChannel, ExitChannel>>
          /\ regStdout' # regStdout =>
               Len(deliveredStdout') = Len(deliveredStdout) + Len(pendingStdout)
     /\ StderrChannel' # StderrChannel =>
          /\ UNCHANGED <<StdoutChannel, ExitChannel>>
          /\ regStderr' # regStderr =>
               Len(deliveredStderr') = Len(deliveredStderr) + Len(pendingStderr)
     /\ ExitChannel' # ExitChannel =>
          /\ UNCHANGED <<StdoutChannel, StderrChannel>>
          /\ regExit' # regExit =>
               Len(deliveredExit') = Len(deliveredExit)
                 + (IF pendingExitCode # NoExitCode THEN 1 ELSE 0)]_vars

\* stdout was registered and its two buffered lines flushed while stderr
\* and exit, without callbacks, still hold what was emitted on them
C30_Witness ==
  /\ regStdout = <<2>>
  /\ Len(deliveredStdout) = 2
  /\ pendingStdout = <<>>
  /\ stderrCallback = NoCallback
  /\ exitCallback = NoCallback
  /\ pendingStderr = emittedStderr
  /\ pendingStderr # <<>>
  /\ pendingExitCode # NoExitCode
  /\ deliveredStderr = <<>>
  /\ deliveredExit = <<>>

\* a registration made on a channel that has a callback delivers nothing
\* (reg, delivered: before the step; regNext, deliveredNext: after it)
SecondRegistrationSilent(callback, reg, regNext, delivered, deliveredNext) ==
  (Len(regNext) > Len(reg) /\ callback # NoCallback) =>
    deliveredNext = delivered

\* an event emitted on a channel that has a callback is delivered once, to
\* the callback of the latest registration, and to no other
EmitGoesToLatest(callback, reg, emitted, emittedNext, delivered,
                 deliveredNext) ==
  (Len(emittedNext) > Len(emitted) /\ callback # NoCallback) =>
    /\ callback = Len(reg)
    /\ deliveredNext =
         Append(delivered,
                Call(Len(reg), emittedNext[Len(emittedNext)], "direct"))

\* C35: on each channel, when a callback is registered the pending buffer is
\* empty (a registration is one step: none is in progress in any state); a
\* registration on a channel that already has a callback delivers nothing;
\* and an event emitted then goes to the latest registered callback only.
C35_RegisteredMeansNothingPending ==
  /\ [](/\ stdoutCallback # NoCallback => pendingStdout = <<>>
        /\ stderrCallback # NoCallback => pendingStderr = <<>>
        /\ exitCallback # NoCallback => pendingExitCode = NoExitCode)
  /\ [][/\ SecondRegistrationSilent(stdoutCallback, regStdout, regStdout',
                                    deliveredStdout, deliveredStdout')
        /\ SecondRegistrationSilent(stderrCallback, regStderr, regStderr',
                                    deliveredStderr, deliveredStderr')
        /\ SecondRegistrationSilent(exitCallback, regExit, regExit',
                                    deliveredExit, deliveredExit')
        /\ EmitGoesToLatest(stdoutCallback, regStdout, emittedStdout,
                            emittedStdout', deliveredStdout, deliveredStdout')
        /\ EmitGoesToLatest(stderrCallback, regStderr, emittedStderr,
                            emittedStderr', deliveredStderr, deliveredStderr')
        /\ EmitGoesToLatest(exitCallback, regExit, emittedExit,
                            emittedExit', deliveredExit, deliveredExit')]_vars

\* stdout: a line buffered and flushed to the first callback, a second
\* callback registered, and a later line delivered to the second one only
C35_Witness ==
  /\ Len(regStdout) = 2
  /\ regStdout[1] = 1
  /\ regStdout[2] = 1
  /\ Len(emittedStdout) = 2
  /\ deliveredStdout =
       <<Call(1, emittedStdout[1], "flush"), Call(2, emittedStdout[2], "direct")>>
  /\ pendingStdout = <<>>

(***************************************************************************)
(* LocalBackgroundHandle: terminate()                                      *)
(* terminate() is an async method: it runs from its start to the await of  *)
(* the 2000 ms timer in one step, and from the timer's firing to its end   *)
(* in another (isRunning() returns an already resolved promise, so no      *)
(* process event is handled between the check and the SIGKILL).  Several   *)
(* calls may overlap.  The child process and the clock are the             *)
(* environment.                                                            *)
(***************************************************************************)
\* disposable.underlying.pid when it is undefined (the spawn failed)
NoPid == 0

\* the pid of a spawned child
ChildPid == 7

\* child.exitCode when it is null
NullCode == -1

\* the grace window of terminate(), in seconds (setTimeout(resolve, 2000))
GraceSecs == 2

TCalls == 1 .. MaxTerminateCalls

\* a terminate() call: pc is "idle" (not called yet), "grace" (awaiting the
\* timer), "returned" (its promise resolved) or "threw" (its promise
\* rejected); late records whether another call had completed when it started
IdleCall == [pc |-> "idle", wakeAt |-> 0, late |-> FALSE]

TerminateInit ==
  /\ terminated = FALSE
  /\ pid \in {NoPid, ChildPid}
  /\ \/ childExitCode = NullCode /\ childSignalCode = "null"
     \/ childExitCode \in ExitCodes /\ childSignalCode = "null"
     \/ childExitCode = NullCode /\ childSignalCode \in {"SIGTERM", "SIGKILL"}
  /\ groupGone \in BOOLEAN
  /\ tcall = [c \in TCalls |-> IdleCall]
  /\ kills = <<>>
  /\ now = 0

\* faulty variant: only the exit code is looked at
isRunningExitCodeOnly == childExitCode = NullCode

isRunning == childExitCode = NullCode /\ childSignalCode = "null"

\* process.kill(pgid, sig) throws (ESRCH) when there is no such process group
KillThrows == groupGone

\* one process.kill call by terminate() call c
Kill(c, sig) ==
  [call |-> c, pgid |-> 0 - pid, sig |-> sig, at |-> now,
   threw |-> KillThrows, running |-> isRunning]

\* faulty variant: the guard of terminate() is missing
AlreadyTerminatedNever(flag) == FALSE

\* if (this.terminated) return;
AlreadyTerminated(flag) == flag

\* faulty variant: no try/catch around the signalling
UncaughtKill(threw) == IF threw THEN "threw" ELSE "returned"

\* how terminate() ends after its try/catch: the catch swallows the error
AfterTryCatch(threw) == "returned"

\* the earliest instant the timer set at instant t fires
TimerDeadline(t) == t + GraceSecs

\* faulty variant: SIGKILL follows whatever isRunning() says
ShouldEscalateAlways(running) == TRUE

\* if (await this.isRunning())
ShouldEscalate(running) == running

\* terminate(), from the call to the first await or to the return
TerminateStart(c) ==
  /\ tcall[c].pc = "idle"
  /\ LET late == \E d \in TCalls : tcall[d].pc = "returned" IN
     IF AlreadyTerminated(terminated)
       THEN /\ tcall' = [tcall EXCEPT ![c] = [@ EXCEPT !.pc = "returned",
                                                      !.late = late]]
            /\ UNCHANGED <<terminated, kills>>
     ELSE IF pid = NoPid
       THEN /\ terminated' = TRUE
            /\ tcall' = [tcall EXCEPT ![c] = [@ EXCEPT !.pc = "returned",
                                                      !.late = late]]
            /\ UNCHANGED kills
     ELSE /\ kills' = Append(kills, Kill(c, "SIGTERM"))
          /\ IF KillThrows
               THEN /\ tcall' = [tcall EXCEPT ![c] =
                                   [@ EXCEPT !.pc = AfterTryCatch(TRUE),
                                             !.late = late]]
                    /\ terminated' = (AfterTryCatch(TRUE) = "returned")
               ELSE /\ tcall' = [tcall EXCEPT ![c] =
                                   [pc |-> "grace",
                                    wakeAt |-> TimerDeadline(now),
                                    late |-> late]]
                    /\ UNCHANGED terminated
  /\ UNCHANGED <<pid, childExitCode, childSignalCode, groupGone, now>>
  /\ UNCHANGED notTermVars

\* terminate(), from the firing of the timer to the return
TerminateResume(c) ==
  /\ tcall[c].pc = "grace"
  /\ now >= tcall[c].wakeAt
  /\ IF ShouldEscalate(isRunning)
       THEN /\ kills' = Append(kills, Kill(c, "SIGKILL"))
            /\ tcall' = [tcall EXCEPT ![c].pc = AfterTryCatch(KillThrows)]
            /\ terminated' =
                 (terminated \/ AfterTryCatch(KillThrows) = "returned")
       ELSE /\ tcall' = [tcall EXCEPT ![c].pc = "returned"]
            /\ terminated' = TRUE
            /\ UNCHANGED kills
  /\ UNCHANGED <<pid, childExitCode, childSignalCode, groupGone, now>>
  /\ UNCHANGED notTermVars

\* environment: the child exits by itself
ChildExits(code) ==
  /\ pid # NoPid
  /\ isRunning
  /\ childExitCode' = code
  /\ UNCHANGED <<terminated, pid, childSignalCode, groupGone, tcall, kills, now>>
  /\ UNCHANGED notTermVars

\* environment: the child is killed by a signal (one of terminate()'s, or
\* anyone else's)
ChildKilled(sig) ==
  /\ pid # NoPid
  /\ isRunning
  /\ childSignalCode' = sig
  /\ UNCHANGED <<terminated, pid, childExitCode, groupGone, tcall, kills, now>>
  /\ UNCHANGED notTermVars

\* environment: the process group -pid ceases to exist: its last member was
\* reaped, or the child, still running, moved to another group (setsid)
GroupVanishes ==
  /\ pid # NoPid
  /\ ~groupGone
  /\ groupGone' = TRUE
  /\ UNCHANGED <<terminated, pid, childExitCode, childSignalCode, tcall,
                 kills, now>>
  /\ UNCHANGED notTermVars

\* environment: a second passes (the clock is followed up to MaxTime, and
\* beyond it until the timers already set have fired)
Tick ==
  /\ \/ now < MaxTime
     \/ \E c \in TCalls : tcall[c].pc = "grace" /\ now < tcall[c].wakeAt
  /\ now' = now + 1
  /\ UNCHANGED <<terminated, pid, childExitCode, childSignalCode, groupGone,
                 tcall, kills>>
  /\ UNCHANGED notTermVars

\* faulty variant: dispose() resets the handle
DisposeResetsHandle ==
  /\ pid # NoPid
  /\ isRunning
  /\ childSignalCode' = "SIGKILL"
  /\ terminated' = FALSE
  /\ UNCHANGED <<pid, childExitCode, groupGone, tcall, kills, now>>
  /\ UNCHANGED notTermVars

\* dispose(): disposable[Symbol.dispose]() ends the child if it still runs;
\* the handle's own fields are not touched
Dispose ==
  /\ pid # NoPid
  /\ isRunning
  /\ childSignalCode' = "SIGKILL"
  /\ UNCHANGED <<terminated, pid, childExitCode, groupGone, tcall, kills, now>>
  /\ UNCHANGED notTermVars

TerminateNext ==
  \/ \E c \in TCalls : TerminateStart(c)
  \/ \E c \in TCalls : TerminateResume(c)
  \/ \E code \in ExitCodes : ChildExits(code)
  \/ \E sig \in {"SIGTERM", "SIGKILL"} : ChildKilled(sig)
  \/ GroupVanishes
  \/ Tick

(***************************************************************************)
(* LocalBackgroundHandle: properties of terminate()                        *)
(***************************************************************************)
\* the process.kill calls made by terminate() call c
KillsOf(c) == {i \in 1 .. Len(kills) : kills[i].call = c}

\* C6: after one terminate() call has completed, every later terminate()
\* call is a no-op: it sends no signal, awaits no grace window and returns
\* without error.
C6_LaterTerminateIsNoOp ==
  \A c \in TCalls :
    tcall[c].late =>
      /\ tcall[c].pc = "returned"
      /\ KillsOf(c) = {}
      /\ terminated

\* a terminate() call that signalled a running child and completed, and a
\* later call that completed too
C6_Witness ==
  \E c, d \in TCalls :
    /\ tcall[c].pc = "returned"
    /\ ~tcall[c].late
    /\ \E i \in KillsOf(c) : kills[i].running /\ ~kills[i].threw
    /\ tcall[d].late
    /\ tcall[d].pc = "returned"

\* C7: terminate() never fails: whatever the state of the child (running,
\* exited, killed by a signal, no pid), and also when process.kill throws
\* because the process group is gone, a terminate() call never ends in an
\* error, and once it has returned the handle is marked terminated.
C7_TerminateNeverFails ==
  \A c \in TCalls :
    /\ tcall[c].pc # "threw"
    /\ tcall[c].pc = "returned" => terminated

\* a call whose SIGTERM was sent to a running child and whose SIGKILL threw
\* (the group vanished during the grace window), and which returned
C7_Witness ==
  \E c \in TCalls :
    /\ tcall[c].pc = "returned"
    /\ \E i, j \in KillsOf(c) :
         /\ kills[i].sig = "SIGTERM" /\ ~kills[i].threw
         /\ kills[j].sig = "SIGKILL" /\ kills[j].threw

\* C8: every SIGKILL of terminate() goes to the process group -pid, follows
\* a SIGTERM that the same call sent successfully to the same group at least
\* GraceSecs earlier, and is sent only when isRunning() is true at that
\* moment; SIGTERM is always a call's first signal.
C8_TermThenKillAfterGrace ==
  \A i \in 1 .. Len(kills) :
    /\ kills[i].pgid = 0 - pid
    /\ kills[i].sig = "SIGKILL" =>
         /\ kills[i].running
         /\ \E j \in 1 .. i - 1 :
              /\ kills[j].call = kills[i].call
              /\ kills[j].sig = "SIGTERM"
              /\ ~kills[j].threw
              /\ kills[j].pgid = kills[i].pgid
              /\ kills[i].at >= kills[j].at + GraceSecs
    /\ kills[i].sig = "SIGTERM" =>
         \A j \in 1 .. i - 1 : kills[j].call # kills[i].call

\* one call escalated to SIGKILL after the grace window, and another call
\* did not because the child had exited during its grace window
C8_Witness ==
  \E c \in TCalls :
    /\ tcall[c].pc = "returned"
    /\ \E i \in KillsOf(c) : kills[i].sig = "SIGKILL" /\ ~kills[i].threw
    /\ \E d \in TCalls :
         /\ tcall[d].pc = "returned"
         /\ ~tcall[d].late
         /\ \E i \in KillsOf(d) : kills[i].sig = "SIGTERM" /\ ~kills[i].threw
         /\ \A i \in KillsOf(d) : kills[i].sig # "SIGKILL"

\* the child has an exit code recorded
ExitRecorded == childExitCode \in ExitCodes

\* the child has a termination signal recorded
SignalRecorded == childSignalCode \in {"SIGTERM", "SIGKILL"}

\* C29: isRunning() is true if and only if the child has neither an exit
\* code nor a termination signal recorded; it is false for a child killed
\* by a signal, which has no exit code.
C29_RunningIffNothingRecorded ==
  /\ isRunning <=> (~ExitRecorded /\ ~SignalRecorded)
  /\ (SignalRecorded /\ ~ExitRecorded) => ~isRunning
  /\ \A i \in 1 .. Len(kills) :
       kills[i].sig = "SIGKILL" => kills[i].running

\* a child killed by terminate()'s SIGTERM during the grace window: no exit
\* code, signal recorded, and the call returned without SIGKILL
C29_Witness ==
  /\ childSignalCode = "SIGTERM"
  /\ childExitCode = NullCode
  /\ ~isRunning
  /\ \E c \in TCalls :
       /\ tcall[c].pc = "returned"
       /\ KillsOf(c) # {}
       /\ \A i \in KillsOf(c) : kills[i].sig = "SIGTERM" /\ kills[i].running

\* the signals of one kind that terminate() calls have sent
Sent(sig) == {i \in 1 .. Len(kills) : kills[i].sig = sig}

\* C31 (as stated): over any interleaving of terminate() calls, overlapping
\* ones included, at most one SIGTERM and at most one SIGKILL are sent to the
\* process group.
C31_AtMostOneOfEachSignal ==
  /\ Cardinality(Sent("SIGTERM")) <= 1
  /\ Cardinality(Sent("SIGKILL")) <= 1

\* a second terminate() call started inside the grace window of the first
\* and signalled the running child again: two SIGTERM, from two calls, less
\* than GraceSecs apart
C31_Witness ==
  \E i, j \in Sent("SIGTERM") :
    /\ i < j
    /\ kills[i].call # kills[j].call
    /\ ~kills[i].threw
    /\ kills[j].running
    /\ kills[j].at < kills[i].at + GraceSecs

\* C32: every terminate() call that was made completes; when a call has
\* completed the terminated flag is true; and no step (of terminate, of the
\* child, of dispose, of an emit or of a callback registration) takes the
\* flag from true to false.
C32_TerminateCompletesAndSticks ==
  /\ \A c \in TCalls : (tcall[c].pc # "idle") ~> (tcall[c].pc = "returned")
  /\ [](\A c \in TCalls : tcall[c].pc = "returned" => terminated)
  /\ [][terminated => terminated']_vars

\* the handle is terminated after a call that went through its grace window,
\* and an exit was emitted on it since
C32_Witness ==
  /\ terminated
  /\ \E c \in TCalls :
       /\ tcall[c].pc = "returned"
       /\ \E i \in KillsOf(c) : ~kills[i].threw /\ kills[i].at + GraceSecs <= now
  /\ emittedExit # <<>>

(***************************************************************************)
(* Strings.  A string the code computes on is a sequence of one-character  *)
(* strings; the operators below are the JavaScript string methods the code *)
(* calls.                                                                  *)
(***************************************************************************)
\* s.startsWith(prefix)
StartsWith(s, prefix) ==
  /\ Len(prefix) <= Len(s)
  /\ \A i \in 1 .. Len(prefix) : s[i] = prefix[i]

\* s.includes(sub)
Includes(s, sub) ==
  \E k \in 0 .. Len(s) - Len(sub) : \A i \in 1 .. Len(sub) : s[k + i] = sub[i]

\* the characters trim() removes
Whitespace == {" ", "\n", "\t"}

\* s.trim()
RECURSIVE Trim(_)
Trim(s) ==
  IF s = <<>> THEN s
  ELSE IF Head(s) \in Whitespace THEN Trim(Tail(s))
  ELSE IF s[Len(s)] \in Whitespace THEN Trim(SubSeq(s, 1, Len(s) - 1))
  ELSE s

\* s.replace(/c/g, by) for a one-character pattern c
RECURSIVE ReplaceAll(_, _, _)
ReplaceAll(s, c, by) ==
  IF s = <<>> THEN <<>>
  ELSE (IF Head(s) = c THEN by ELSE <<Head(s)>>) \o ReplaceAll(Tail(s), c, by)

\* s without the characters c at its end
RECURSIVE StripTrailing(_, _)
StripTrailing(s, c) ==
  IF s # <<>> /\ s[Len(s)] = c
    THEN StripTrailing(SubSeq(s, 1, Len(s) - 1), c)
    ELSE s

\* s.replace(/\/+$/, "")
StripTrailingSlashes(s) == StripTrailing(s, "/")

(***************************************************************************)
(* runWorkspaceScript                                                      *)
(* One call, stepped from await to await.  The runtime (resolvePath, stat, *)
(* execBuffered), the bash execution engine and the file system are the    *)
(* environment: each of their answers is any of the answers below.         *)
(***************************************************************************)
\* the characters of script names
NameChars == {"a", ".", "/", "\\"}

\* the script names a caller may pass
ScriptNames == UNION {[1 .. n -> NameChars] : n \in 0 .. MaxNameLen}

\* the backquote character (the string syntax here cannot hold it)
Backquote == "<backquote>"

\* the characters of the arguments the command building is checked on:
\* a plain one, the single quote, the blank, the backslash and the
\* characters a shell interprets
CommandChars == {"a", "'", " ", "\\", "$", Backquote, ";", "\""}

\* every argument of at most MaxArgLen characters
CommandWords == UNION {[1 .. n -> CommandChars] : n \in 0 .. MaxArgLen}

\* no argument, one argument, or an argument followed by a second one
CommandArgLists ==
  {<<>>} \cup {<<w>> : w \in CommandWords}
         \cup {<<w, v>> : w \in CommandWords,
                          v \in {<<>>, <<"'">>, <<"a", " ", "'", ";">>}}

\* valid script names with characters a shell interprets
CommandNames ==
  {<<"a">>, <<"i", "t", "'", "s">>, <<"a", " ", "b">>,
   <<"$", "x", ";", Backquote, "\"">>}

\* the argument lists a caller may pass
ArgLists == {<<>>, << <<"x", "'", "y">>, <<"$", " ", "z">> >>}

\* options.persistentTempDir: not given, or a string
PersistentTempDirs ==
  {[given |-> FALSE, value |-> <<>>]}
    \cup {[given |-> TRUE, value |-> v] :
            v \in {<<>>, <<" ">>, <<"/">>, <<"/", "p">>,
                   <<" ", "/", "p", "/", "/">>}}

workspacePath == <<"/", "w">>

\* getScriptsDir(workspacePath): <workspace>/.mux/scripts
getScriptsDir(ws) ==
  ws \o <<"/", ".", "m", "u", "x", "/", "s", "c", "r", "i", "p", "t", "s">>

\* getScriptPath(workspacePath, scriptName)
getScriptPath(ws, name) == getScriptsDir(ws) \o <<"/">> \o name

\* getLegacyScriptsDir(workspacePath): <workspace>/.cmux/scripts (the name of
\* the legacy directory is not in the sources; any other name would do)
getLegacyScriptsDir(ws) ==
  ws \o <<"/", ".", "c", "m", "u", "x", "/", "s", "c", "r", "i", "p", "t", "s">>

\* getLegacyScriptPath(workspacePath, scriptName)
getLegacyScriptPath(ws, name) == getLegacyScriptsDir(ws) \o <<"/">> \o name

\* a path in the form the runtime's resolvePath returns it
Native(path) == IF windows THEN ReplaceAll(path, "/", <<"\\">>) ELSE path

\* runtime.resolvePath(path), when it does not throw: the path itself when
\* no component of it is a symbolic link, else where the links lead: into a
\* subdirectory, to the directory itself, to a sibling directory whose name
\* starts with the directory's name, to the other scripts directory, or out
\* of the workspace
ResolvePathAnswers(path) ==
  {Native(q) :
     q \in {path,
            getScriptsDir(workspacePath) \o <<"/", "d", "/", "f">>,
            getScriptsDir(workspacePath),
            getScriptsDir(workspacePath) \o <<"2", "/", "f">>,
            getLegacyScriptsDir(workspacePath) \o <<"/", "f">>,
            <<"/", "o">>,
            <<"/", "o", "/", "f">>}}

\* runtime.normalizePath(path, base) on an absolute path: the runtime's
\* separators, no trailing separator
normalizePath(path, base) ==
  IF windows
    THEN StripTrailing(ReplaceAll(path, "/", <<"\\">>), "\\")
    ELSE StripTrailing(path, "/")

\* what the engine returned, before it has
NoToolResult ==
  [success |-> FALSE, hasOutput |-> FALSE, output |-> <<>>, error |-> <<>>,
   exitCode |-> 0, wroteLog |-> FALSE]

\* the data of a result that carries none
NoData ==
  [exitCode |-> 0, stdout |-> <<>>, stderr |-> <<>>, hasToolResult |-> FALSE,
   toolResult |-> NoToolResult]

\* Err(message): the message is the template's text, value the text it
\* interpolates
Err(message, value) ==
  [success |-> FALSE, error |-> message, value |-> value, data |-> NoData]

\* faulty variant: a failed tool result makes the Result a failure
OkOnlyOnToolSuccess(data) ==
  [success |-> data.toolResult.success, error |-> "", value |-> <<>>,
   data |-> data]

\* Ok(data)
Ok(data) == [success |-> TRUE, error |-> "", value |-> <<>>, data |-> data]

\* the call's promise rejected: a raw exception reached the caller
Threw(what) == Err("<uncaught exception>", <<what>>)

\* the call has not returned
NoResult == Err("<pending>", <<>>)

\* what the catch caught, when nothing was thrown
NoError == [kind |-> "none", text |-> <<>>]

\* tempDirResult before execBuffered has returned
NoTempDirResult ==
  [returned |-> FALSE, exitCode |-> 0, stdout |-> <<>>, stderr |-> <<>>]

RunnerInit ==
  /\ rpc = "validate"
  /\ windows \in BOOLEAN
  /\ scriptName \in ScriptNames
  /\ args \in ArgLists
  /\ overflowPolicy \in {"truncate", "tmpfile"}
  /\ persistentTempDir \in PersistentTempDirs
  /\ resolvedScriptPath = <<>>
  /\ resolvedScriptsDir = <<>>
  /\ resolvedFrom = "none"
  /\ statResult = "none"
  /\ tempDirResult = NoTempDirResult
  /\ command = <<>>
  /\ runtimeTempDir = <<>>
  /\ skipCleanup = FALSE
  /\ cleanupScheduled = FALSE
  /\ result = NoResult
  /\ ops = {}
  /\ engineCalls = <<>>
  /\ toolResult = NoToolResult
  /\ execError = NoError
  /\ rmCommands = {}
  /\ tempDirsOnDisk = {}

\* faulty variant: the name check forgets the parent-directory segment
NameIsInvalidNoDotDot(name) ==
  Includes(name, <<"/">>) \/ Includes(name, <<"\\">>)

\* scriptName.includes("/") || scriptName.includes("\\") ||
\* scriptName.includes("..")
NameIsInvalid(name) ==
  \/ Includes(name, <<"/">>)
  \/ Includes(name, <<"\\">>)
  \/ Includes(name, <<".", ".">>)

\* the call returns r
Return(r) ==
  /\ rpc' = "done"
  /\ result' = r

\* 1. validate the script name
Validate ==
  /\ rpc = "validate"
  /\ IF NameIsInvalid(scriptName)
       THEN Return(Err("Invalid script name: ${scriptName}. Script names must not contain path separators.",
                       scriptName))
       ELSE /\ rpc' = "canonical"
            /\ UNCHANGED result
  /\ UNCHANGED <<windows, scriptName, args, overflowPolicy, persistentTempDir,
                 resolvedScriptPath, resolvedScriptsDir, resolvedFrom,
                 statResult, tempDirResult, command,
                 runtimeTempDir, skipCleanup, cleanupScheduled, ops,
                 engineCalls, toolResult, execError, rmCommands,
                 tempDirsOnDisk>>
  /\ UNCHANGED notRunVars

\* what stays as it is while the script is located
LocateUnchanged ==
  /\ UNCHANGED <<windows, scriptName, args, overflowPolicy, persistentTempDir,
                 tempDirResult, command,
                 runtimeTempDir, skipCleanup, cleanupScheduled,
                 engineCalls, toolResult, execError, rmCommands,
                 tempDirsOnDisk>>
  /\ UNCHANGED notRunVars

\* One try block of the resolution: resolvePath(scriptPath), stat of the
\* answer, resolvePath(scriptsDir).  The first throw leaves the block for
\* onThrow; resolvedScriptPath is assigned before the third call is made.
\* (The three awaits are one step: nothing else runs in this model between
\* them but the runtime, whose answers are arbitrary anyway.)
TryResolve(scriptPath, scriptsDir, from, onThrow) ==
  \/ /\ rpc' = onThrow
     /\ ops' = ops \cup {"resolvePath"}
     /\ UNCHANGED <<resolvedScriptPath, resolvedScriptsDir, resolvedFrom, result>>
  \/ /\ rpc' = onThrow
     /\ ops' = ops \cup {"resolvePath", "stat"}
     /\ UNCHANGED <<resolvedScriptPath, resolvedScriptsDir, resolvedFrom, result>>
  \/ \E candidatePath \in ResolvePathAnswers(scriptPath) :
       /\ rpc' = onThrow
       /\ ops' = ops \cup {"resolvePath", "stat"}
       /\ resolvedScriptPath' = candidatePath
       /\ UNCHANGED <<resolvedScriptsDir, resolvedFrom, result>>
  \/ \E candidatePath \in ResolvePathAnswers(scriptPath),
        dir \in ResolvePathAnswers(scriptsDir) :
       /\ rpc' = "contain"
       /\ ops' = ops \cup {"resolvePath", "stat"}
       /\ resolvedScriptPath' = candidatePath
       /\ resolvedScriptsDir' = dir
       /\ resolvedFrom' = from
       /\ UNCHANGED result

\* try { canonical } catch { ...
ResolveCanonical ==
  /\ rpc = "canonical"
  /\ TryResolve(getScriptPath(workspacePath, scriptName),
                getScriptsDir(workspacePath), "canonical", "legacy")
  /\ UNCHANGED statResult
  /\ LocateUnchanged

\* ... try { legacy } catch { ...
ResolveLegacy ==
  /\ rpc = "legacy"
  /\ TryResolve(getLegacyScriptPath(workspacePath, scriptName),
                getLegacyScriptsDir(workspacePath), "legacy", "fallback")
  /\ UNCHANGED statResult
  /\ LocateUnchanged

\* ... both missing: resolve the canonical paths, outside any try block }}
ResolveFallback ==
  /\ rpc = "fallback"
  /\ ops' = ops \cup {"resolvePath"}
  /\ \/ /\ rpc' = "done"
        /\ result' = Threw("resolvePath")
        /\ UNCHANGED <<resolvedScriptPath, resolvedScriptsDir, resolvedFrom>>
     \/ \E candidatePath \in
             ResolvePathAnswers(getScriptPath(workspacePath, scriptName)) :
          /\ rpc' = "done"
          /\ result' = Threw("resolvePath")
          /\ resolvedScriptPath' = candidatePath
          /\ UNCHANGED <<resolvedScriptsDir, resolvedFrom>>
     \/ \E candidatePath \in
             ResolvePathAnswers(getScriptPath(workspacePath, scriptName)),
           dir \in ResolvePathAnswers(getScriptsDir(workspacePath)) :
          /\ rpc' = "contain"
          /\ resolvedScriptPath' = candidatePath
          /\ resolvedScriptsDir' = dir
          /\ resolvedFrom' = "fallback"
          /\ UNCHANGED result
  /\ UNCHANGED statResult
  /\ LocateUnchanged

\* normalizedScriptsDir.includes("\\") ? "\\" : "/"
Separator(normalizedScriptsDir) ==
  IF Includes(normalizedScriptsDir, <<"\\">>) THEN "\\" ELSE "/"

\* faulty variant: the prefix test leaves the separator out
ContainedNoSeparator(scriptPath, scriptsDir) ==
  StartsWith(normalizePath(scriptPath, workspacePath),
             normalizePath(scriptsDir, workspacePath))

\* faulty variant: only the canonical scripts directory counts
ContainedInCanonicalOnly(scriptPath, scriptsDir) ==
  LET normalizedScriptPath == normalizePath(scriptPath, workspacePath)
      normalizedScriptsDir ==
        normalizePath(Native(getScriptsDir(workspacePath)), workspacePath)
  IN  StartsWith(normalizedScriptPath,
                 Append(normalizedScriptsDir, Separator(normalizedScriptsDir)))

\* normalizedScriptPath.startsWith(normalizedScriptsDir + separator)
Contained(scriptPath, scriptsDir) ==
  LET normalizedScriptPath == normalizePath(scriptPath, workspacePath)
      normalizedScriptsDir == normalizePath(scriptsDir, workspacePath)
  IN  StartsWith(normalizedScriptPath,
                 Append(normalizedScriptsDir, Separator(normalizedScriptsDir)))

\* the containment check on the resolved paths
CheckContainment ==
  /\ rpc = "contain"
  /\ IF ~Contained(resolvedScriptPath, resolvedScriptsDir)
       THEN Return(Err("Invalid script name: ${scriptName}. Script path escapes scripts directory.",
                       scriptName))
       ELSE /\ rpc' = "stat"
            /\ UNCHANGED result
  /\ UNCHANGED <<resolvedScriptPath, resolvedScriptsDir, resolvedFrom, ops,
                 statResult>>
  /\ LocateUnchanged

\* what runtime.stat(resolvedScriptPath) answers: it throws, or returns the
\* stat of a directory or of a file
StatAnswers == {"threw", "directory", "file"}

\* faulty variant: a directory is taken for a file
IsDirectoryNever(answer) == FALSE

\* stat.isDirectory
IsDirectory(answer) == answer = "directory"

\* 2. existence and type of the resolved path
CheckExists ==
  /\ rpc = "stat"
  /\ ops' = ops \cup {"stat"}
  /\ \E answer \in StatAnswers :
       /\ statResult' = answer
       /\ IF answer = "threw"
            THEN Return(Err("Script not found: .mux/scripts/${scriptName}. Create the script in your workspace and make it executable (chmod +x).",
                            scriptName))
          ELSE IF IsDirectory(answer)
            THEN Return(Err("Script is a directory: ${scriptName}", scriptName))
          ELSE /\ rpc' = "mktemp"
               /\ UNCHANGED result
  /\ UNCHANGED <<resolvedScriptPath, resolvedScriptsDir, resolvedFrom>>
  /\ LocateUnchanged

\* value.replace(/\\/g, "/")
normalizeForShell(value) == ReplaceAll(value, "\\", <<"/">>)

\* faulty variant: the single quotes are left as they are
escapeSingleQuotesNot(value) == value

\* value.replace(/'/g, "'\\''")
escapeSingleQuotes(value) == ReplaceAll(value, "'", <<"'", "\\", "'", "'">>)

\* an optional string that is undefined
Undefined == [defined |-> FALSE, value |-> <<>>]

\* persistentTempDir && persistentTempDir.trim().length > 0
\*   ? normalizeForShell(persistentTempDir.trim()).replace(/\/+$/, "")
\*   : undefined
PersistentBase(dir) ==
  IF dir.given /\ dir.value # <<>> /\ Len(Trim(dir.value)) > 0
    THEN [defined |-> TRUE,
          value |-> StripTrailingSlashes(normalizeForShell(Trim(dir.value)))]
    ELSE Undefined

\* JavaScript's truthiness of an optional string
Truthy(optional) == optional.defined /\ optional.value # <<>>

\* what mktemp puts in the place of its template's X's
Suffixes == <<<<"A", "1">>, <<"B", "2">>, <<"C", "3">>, <<"D", "4">>>>

\* the directory mktemp -d creates for a suffix: under the persistent base
\* from the template script-XXXXXX, else in the system's temp location
TempDirNamed(persistentBase, suffix) ==
  IF Truthy(persistentBase)
    THEN persistentBase.value
           \o <<"/", "s", "c", "r", "i", "p", "t", "-">> \o suffix
    ELSE <<"/", "t", "m", "p", "/", "t", "m", "p", ".">> \o suffix

\* the directory the allocation command creates when nothing else is there
CreatedTempDir(persistentBase) == TempDirNamed(persistentBase, Suffixes[1])

\* the suffixes that give a name not on the disk
FreeSuffixes(persistentBase, onDisk) ==
  {i \in 1 .. Len(Suffixes) :
     TempDirNamed(persistentBase, Suffixes[i]) \notin onDisk}

\* faulty variant: the same name whatever is on the disk
FixedTempDir(persistentBase, onDisk) ==
  TempDirNamed(persistentBase, Suffixes[1])

\* mktemp -d creates a directory that did not exist: the first free name
\* (which of the free names it takes makes no difference to the caller)
FreshTempDir(persistentBase, onDisk) ==
  LET free == FreeSuffixes(persistentBase, onDisk)
  IN  TempDirNamed(persistentBase,
                   Suffixes[CHOOSE i \in free : \A j \in free : i <= j])

\* What execBuffered(runtime, tempDirCommand) returns when it does not
\* reject: the command fails with or without a message on stderr; it exits
\* 0 and prints nothing, or white space only; or mktemp creates dir and
\* prints its path and a newline.
TempDirResults(dir) ==
  {[returned |-> TRUE, exitCode |-> 1, stdout |-> <<>>,
    stderr |-> <<"mkdir: cannot create directory">>],
   [returned |-> TRUE, exitCode |-> 1, stdout |-> <<>>, stderr |-> <<>>],
   [returned |-> TRUE, exitCode |-> 0, stdout |-> <<>>, stderr |-> <<>>],
   [returned |-> TRUE, exitCode |-> 0, stdout |-> <<" ", "\n">>,
    stderr |-> <<>>],
   [returned |-> TRUE, exitCode |-> 0, stdout |-> Append(dir, "\n"),
    stderr |-> <<>>]}

\* faulty variant: an empty path is taken for a directory
AllocationNeverFails(r) == FALSE

\* faulty variant: only the exit code is looked at
AllocationFailedByExitCodeOnly(r) == r.exitCode # 0

\* tempDirResult.exitCode !== 0, or the trimmed stdout is empty
AllocationFailed(r) == r.exitCode # 0 \/ Trim(r.stdout) = <<>>

\* what stays as it is while the temp directory is allocated
AllocateUnchanged ==
  /\ UNCHANGED <<windows, scriptName, args, overflowPolicy, persistentTempDir,
                 resolvedScriptPath, resolvedScriptsDir, resolvedFrom,
                 statResult, command,
                 skipCleanup, cleanupScheduled, engineCalls, toolResult,
                 execError, rmCommands>>
  /\ UNCHANGED notRunVars

\* 3. allocate the temp directory: execBuffered(runtime, tempDirCommand)
AllocateTempDir ==
  /\ rpc = "mktemp"
  /\ ops' = ops \cup {"mktemp"}
  /\ \/ \* execBuffered rejects
        /\ Return(Threw("execBuffered"))
        /\ UNCHANGED <<tempDirResult, runtimeTempDir, tempDirsOnDisk>>
     \/ \E r \in TempDirResults(FreshTempDir(PersistentBase(persistentTempDir),
                                              tempDirsOnDisk)) :
          /\ tempDirResult' = r
          /\ tempDirsOnDisk' =
               (IF r.exitCode = 0 /\ Trim(r.stdout) # <<>>
                  THEN tempDirsOnDisk \cup {Trim(r.stdout)}
                  ELSE tempDirsOnDisk)
          /\ IF r.exitCode # 0
               THEN /\ Return(Err("Failed to prepare script environment: ${tempDirResult.stderr || 'mkdir failed'}",
                                  IF r.stderr # <<>> THEN r.stderr
                                  ELSE <<"mkdir failed">>))
                    /\ UNCHANGED runtimeTempDir
               ELSE /\ runtimeTempDir' = Trim(r.stdout)
                    /\ IF AllocationFailed(r)
                         THEN Return(Err("Failed to prepare script environment: runtime temp directory was empty",
                                         <<>>))
                         ELSE /\ rpc' = "build"
                              /\ UNCHANGED result
  /\ AllocateUnchanged

\* `'${safeArg}'`
Quoted(value) == <<"'">> \o escapeSingleQuotes(value) \o <<"'">>

\* escapedArgs: the quoted arguments joined by one space
RECURSIVE JoinQuoted(_)
JoinQuoted(list) ==
  IF list = <<>> THEN <<>>
  ELSE IF Len(list) = 1 THEN Quoted(list[1])
  ELSE Quoted(list[1]) \o <<" ">> \o JoinQuoted(Tail(list))

\* 4. `'${safeScriptPath}'${escapedArgs ? ` ${escapedArgs}` : ""}`
BuildCommand(scriptPath, argList) ==
  Quoted(scriptPath)
    \o (IF JoinQuoted(argList) # <<>> THEN <<" ">> \o JoinQuoted(argList)
        ELSE <<>>)

\* characters the shell gives a meaning to when they stand unquoted
ShellSpecial == {"$", Backquote, ";", "\"", "&", "|", "<", ">", "(", ")", "*", "?"}

\* the word the model puts where the shell would interpret instead of copy
Interpreted == <<"<interpreted by the shell>">>

\* How a POSIX shell splits a command line into words: inside single quotes
\* every character is literal up to the next single quote; outside, a
\* backslash makes the next character literal, blanks separate words, and a
\* special character is interpreted.  words are the finished words, cur the
\* word in progress (hasCur: there is one, '' gives an empty word).
RECURSIVE ShellSplitFrom(_, _, _, _, _, _)
ShellSplitFrom(s, i, inQuote, hasCur, cur, words) ==
  IF i > Len(s)
    THEN IF inQuote THEN Append(words, Interpreted)
         ELSE IF hasCur THEN Append(words, cur)
         ELSE words
  ELSE IF inQuote
    THEN IF s[i] = "'"
           THEN ShellSplitFrom(s, i + 1, FALSE, TRUE, cur, words)
           ELSE ShellSplitFrom(s, i + 1, TRUE, TRUE, Append(cur, s[i]), words)
  ELSE IF s[i] = "'"
    THEN ShellSplitFrom(s, i + 1, TRUE, TRUE, cur, words)
  ELSE IF s[i] = "\\"
    THEN IF i + 1 > Len(s) THEN Append(words, Interpreted)
         ELSE ShellSplitFrom(s, i + 2, FALSE, TRUE, Append(cur, s[i + 1]),
                             words)
  ELSE IF s[i] \in {" ", "\t", "\n"}
    THEN ShellSplitFrom(s, i + 1, FALSE, FALSE, <<>>,
                        IF hasCur THEN Append(words, cur) ELSE words)
  ELSE IF s[i] \in ShellSpecial
    THEN Append(words, Interpreted)
  ELSE ShellSplitFrom(s, i + 1, FALSE, TRUE, Append(cur, s[i]), words)

\* the words of a command line
ShellSplit(s) == ShellSplitFrom(s, 1, FALSE, FALSE, <<>>, <<>>)

\* 4. build the command
BuildCommandStep ==
  /\ rpc = "build"
  /\ command' = BuildCommand(resolvedScriptPath, args)
  /\ rpc' = "execute"
  /\ UNCHANGED <<windows, scriptName, args, overflowPolicy, persistentTempDir,
                 resolvedScriptPath, resolvedScriptsDir, resolvedFrom,
                 statResult, tempDirResult, runtimeTempDir, skipCleanup,
                 cleanupScheduled, result, ops, engineCalls, toolResult,
                 execError, rmCommands, tempDirsOnDisk>>
  /\ UNCHANGED notRunVars

\* options.timeoutSecs, defaulted
DefaultTimeoutSecs == 300

\* the text the code looks for in the engine's error: "[OUTPUT OVERFLOW -"
OverflowMarker == <<"[", "OUTPUT OVERFLOW", " -">>

\* What bashTool.execute answers when it does not throw.  A text is a
\* sequence of pieces.  Success; failure by exit code with or without
\* partial output; failure by timeout or abort; and, under the tmpfile
\* policy, failure by overflow with the full output saved in tempDir.
EngineAnswers(policy, tempDir) ==
  {[success |-> TRUE, hasOutput |-> TRUE, output |-> <<"out">>,
    error |-> <<>>, exitCode |-> 0, wroteLog |-> FALSE],
   [success |-> FALSE, hasOutput |-> TRUE, output |-> <<"partial">>,
    error |-> <<"Command exited with code 1">>, exitCode |-> 1,
    wroteLog |-> FALSE],
   [success |-> FALSE, hasOutput |-> FALSE, output |-> <<>>,
    error |-> <<"Command exited with code 1">>, exitCode |-> 1,
    wroteLog |-> FALSE],
   [success |-> FALSE, hasOutput |-> FALSE, output |-> <<>>,
    error |-> <<"Command exceeded timeout">>, exitCode |-> 0 - 1,
    wroteLog |-> FALSE],
   [success |-> FALSE, hasOutput |-> FALSE, output |-> <<>>,
    error |-> <<"Command aborted">>, exitCode |-> 0 - 1,
    wroteLog |-> FALSE]}
  \cup
   (IF policy = "tmpfile"
      THEN {[success |-> FALSE, hasOutput |-> FALSE, output |-> <<>>,
             error |-> OverflowMarker \o <<" saved to ", tempDir, "]">>,
             exitCode |-> 0 - 1, wroteLog |-> TRUE]}
      ELSE {[success |-> FALSE, hasOutput |-> TRUE, output |-> <<"head", "tail">>,
             error |-> <<"[", "OUTPUT OVERFLOW", " -", " truncated]">>,
             exitCode |-> 0 - 1, wroteLog |-> FALSE]})

\* faulty variant: every failure under the tmpfile policy keeps the directory
IndicatesAnyFailure(persistentBase, policy, answer) ==
  /\ Truthy(persistentBase)
  /\ policy = "tmpfile"
  /\ ~answer.success

\* 6. whether the temp directory is kept for its overflow log
IndicatesTmpfileOverflow(persistentBase, policy, answer) ==
  /\ Truthy(persistentBase)
  /\ policy = "tmpfile"
  /\ ~answer.success
  /\ Includes(answer.error, OverflowMarker)

\* runtimeTempDir.replace(/"/g, '\\"')
SafeTempDir(dir) == ReplaceAll(dir, "\"", <<"\\", "\"">>)

\* faulty variant: rm -rf is issued but the flag is not set
cleanupTempDirNoFlag(skip) ==
  IF skip \/ cleanupScheduled
    THEN UNCHANGED <<cleanupScheduled, rmCommands>>
    ELSE /\ UNCHANGED cleanupScheduled
         /\ rmCommands' = rmCommands \cup {SafeTempDir(runtimeTempDir)}

\* faulty variant: the flag is set but no rm -rf command is issued
cleanupTempDirFlagOnly(skip) ==
  IF skip \/ cleanupScheduled
    THEN UNCHANGED <<cleanupScheduled, rmCommands>>
    ELSE /\ cleanupScheduled' = TRUE
         /\ UNCHANGED rmCommands

\* cleanupTempDir(), given the value of skipCleanup: it issues rm -rf once
\* and does not await it
cleanupTempDir(skip) ==
  IF skip \/ cleanupScheduled
    THEN UNCHANGED <<cleanupScheduled, rmCommands>>
    ELSE /\ cleanupScheduled' = TRUE
         /\ rmCommands' = rmCommands \cup {SafeTempDir(runtimeTempDir)}

\* faulty variant: the error text goes to stdout and the output to stderr
ExecutionResultSwapped(answer) ==
  [exitCode |-> answer.exitCode,
   stdout |-> IF answer.success THEN answer.output ELSE answer.error,
   stderr |-> IF answer.success THEN <<>>
              ELSE IF answer.hasOutput THEN answer.output ELSE <<>>,
   hasToolResult |-> TRUE,
   toolResult |-> answer]

\* the ScriptExecutionResult assembled from the engine's answer
ExecutionResult(answer) ==
  [exitCode |-> answer.exitCode,
   stdout |-> IF answer.success THEN answer.output
              ELSE IF answer.hasOutput THEN answer.output ELSE <<>>,
   stderr |-> IF answer.success THEN <<>> ELSE answer.error,
   hasToolResult |-> TRUE,
   toolResult |-> answer]

\* what bashTool.execute may throw: an Error with a message, a string, or
\* undefined
ThrownValues ==
  {[kind |-> "Error", text |-> <<"spawn failed">>],
   [kind |-> "string", text |-> <<"aborted">>],
   [kind |-> "undefined", text |-> <<>>]}

\* String(value) for a value that is no Error
StringOf(thrown) ==
  IF thrown.kind = "undefined" THEN <<"undefined">> ELSE thrown.text

\* faulty variant: the message of an Error only, nothing for other values
ErrorMessageOfErrorsOnly(thrown) ==
  IF thrown.kind = "Error" THEN thrown.text ELSE <<>>

\* execError instanceof Error ? execError.message : String(execError)
ErrorMessage(thrown) ==
  IF thrown.kind = "Error" THEN thrown.text ELSE StringOf(thrown)

\* 5. - 6. run the command in the bash execution engine, decide on the
\* cleanup, assemble the result
Execute ==
  /\ rpc = "execute"
  /\ engineCalls' =
       Append(engineCalls,
              [script |-> command,
               timeout_secs |-> DefaultTimeoutSecs,
               cwd |-> workspacePath,
               runtimeTempDir |-> runtimeTempDir,
               overflow_policy |-> overflowPolicy])
  /\ \/ \E answer \in EngineAnswers(overflowPolicy, runtimeTempDir) :
          /\ toolResult' = answer
          /\ IF IndicatesTmpfileOverflow(PersistentBase(persistentTempDir),
                                         overflowPolicy, answer)
               THEN /\ skipCleanup' = TRUE
                    /\ UNCHANGED <<cleanupScheduled, rmCommands>>
               ELSE /\ cleanupTempDir(skipCleanup)
                    /\ UNCHANGED skipCleanup
          /\ Return(Ok(ExecutionResult(answer)))
          /\ UNCHANGED execError
     \/ \* execute throws
        \E thrown \in ThrownValues :
          /\ execError' = thrown
          /\ cleanupTempDir(skipCleanup)
          /\ Return(Err("Script execution failed: ${message}",
                        ErrorMessage(thrown)))
          /\ UNCHANGED <<toolResult, skipCleanup>>
  /\ ops' = ops \cup {"execute"}
             \cup (IF cleanupScheduled' /\ ~cleanupScheduled THEN {"rm"} ELSE {})
  /\ UNCHANGED <<windows, scriptName, args, overflowPolicy, persistentTempDir,
                 resolvedScriptPath, resolvedScriptsDir, resolvedFrom,
                 statResult, tempDirResult, command,
                 runtimeTempDir, tempDirsOnDisk>>
  /\ UNCHANGED notRunVars

\* environment: the runtime runs an issued rm -rf command, which removes
\* the directory
RunCleanup ==
  /\ \E rm \in rmCommands :
       /\ rmCommands' = rmCommands \ {rm}
       /\ tempDirsOnDisk' = {d \in tempDirsOnDisk : SafeTempDir(d) # rm}
  /\ UNCHANGED <<rpc, windows, scriptName, args, overflowPolicy,
                 persistentTempDir, resolvedScriptPath, resolvedScriptsDir,
                 resolvedFrom, statResult, tempDirResult, command,
                 runtimeTempDir, skipCleanup, cleanupScheduled,
                 result, ops, engineCalls, toolResult, execError>>
  /\ UNCHANGED notRunVars

\* faulty variant: the failure of the cleanup becomes the call's result
CleanupFailsIntoResult ==
  /\ \E rm \in rmCommands :
       /\ rmCommands' = rmCommands \ {rm}
       /\ UNCHANGED tempDirsOnDisk
  /\ result' = Err("Script execution failed: ${message}", <<"rm failed">>)
  /\ UNCHANGED <<rpc, windows, scriptName, args, overflowPolicy,
                 persistentTempDir, resolvedScriptPath, resolvedScriptsDir,
                 resolvedFrom, statResult, tempDirResult, command,
                 runtimeTempDir, skipCleanup, cleanupScheduled,
                 ops, engineCalls, toolResult, execError>>
  /\ UNCHANGED notRunVars

\* environment: an issued rm -rf command fails or its execBuffered rejects;
\* the promise is not awaited (void), nothing is removed and the call's
\* result is not touched
CleanupFails ==
  /\ \E rm \in rmCommands :
       /\ rmCommands' = rmCommands \ {rm}
       /\ UNCHANGED tempDirsOnDisk
  /\ UNCHANGED <<rpc, windows, scriptName, args, overflowPolicy,
                 persistentTempDir, resolvedScriptPath, resolvedScriptsDir,
                 resolvedFrom, statResult, tempDirResult, command,
                 runtimeTempDir, skipCleanup, cleanupScheduled,
                 result, ops, engineCalls, toolResult, execError>>
  /\ UNCHANGED notRunVars

\* no second call
NoOtherCall ==
  [pc |-> "none", persistentTempDir |-> [given |-> FALSE, value |-> <<>>],
   overflowPolicy |-> "truncate", runtimeTempDir |-> <<>>,
   skipCleanup |-> FALSE, cleanupScheduled |-> FALSE]

\* The second call, which runs the same code on the same file system, at
\* step 3: its allocation command fails, or mktemp creates its directory.
\* (Its steps 1, 2 and 4 touch nothing the two calls share.)
OtherAllocate ==
  /\ other.pc = "mktemp"
  /\ \/ /\ other' = [other EXCEPT !.pc = "done"]
        /\ UNCHANGED tempDirsOnDisk
     \/ LET dir == FreshTempDir(PersistentBase(other.persistentTempDir),
                                tempDirsOnDisk)
        IN  /\ other' = [other EXCEPT !.pc = "execute",
                                       !.runtimeTempDir = dir]
            /\ tempDirsOnDisk' = tempDirsOnDisk \cup {dir}
  /\ UNCHANGED <<rpc, windows, scriptName, args, overflowPolicy,
                 persistentTempDir, resolvedScriptPath, resolvedScriptsDir,
                 resolvedFrom, statResult, tempDirResult, command,
                 runtimeTempDir, skipCleanup, cleanupScheduled, result, ops,
                 engineCalls, toolResult, execError, rmCommands>>
  /\ UNCHANGED <<bufVars, evVars, termVars, thinkingVars, draftVars>>

\* The second call at steps 5 and 6: the engine answers or throws; the
\* directory is kept for its overflow log, or rm -rf is issued for it.
OtherExecute ==
  /\ other.pc = "execute"
  /\ \/ \E answer \in EngineAnswers(other.overflowPolicy,
                                    other.runtimeTempDir) :
          IF IndicatesTmpfileOverflow(PersistentBase(other.persistentTempDir),
                                      other.overflowPolicy, answer)
            THEN /\ other' = [other EXCEPT !.pc = "done",
                                            !.skipCleanup = TRUE]
                 /\ UNCHANGED rmCommands
            ELSE /\ other' = [other EXCEPT !.pc = "done",
                                            !.cleanupScheduled = TRUE]
                 /\ rmCommands' =
                      rmCommands \cup {SafeTempDir(other.runtimeTempDir)}
     \/ /\ other' = [other EXCEPT !.pc = "done", !.cleanupScheduled = TRUE]
        /\ rmCommands' = rmCommands \cup {SafeTempDir(other.runtimeTempDir)}
  /\ UNCHANGED <<rpc, windows, scriptName, args, overflowPolicy,
                 persistentTempDir, resolvedScriptPath, resolvedScriptsDir,
                 resolvedFrom, statResult, tempDirResult, command,
                 runtimeTempDir, skipCleanup, cleanupScheduled, result, ops,
                 engineCalls, toolResult, execError, tempDirsOnDisk>>
  /\ UNCHANGED <<bufVars, evVars, termVars, thinkingVars, draftVars>>

\* the steps of the call itself
RunnerSteps ==
  \/ Validate
  \/ ResolveCanonical
  \/ ResolveLegacy
  \/ ResolveFallback
  \/ CheckContainment
  \/ CheckExists
  \/ AllocateTempDir
  \/ BuildCommandStep
  \/ Execute

RunnerNext ==
  \/ RunnerSteps
  \/ RunCleanup
  \/ CleanupFails

\* the steps when every cleanup command issued runs and succeeds
RunnerNextCleanupRuns ==
  \/ RunnerSteps
  \/ RunCleanup

(***************************************************************************)
(* runWorkspaceScript: properties                                          *)
(***************************************************************************)
\* the name holds a / or a \ or two adjacent dots
HasSeparatorOrDotDot(name) ==
  \/ \E i \in 1 .. Len(name) : name[i] \in {"/", "\\"}
  \/ \E i \in 1 .. Len(name) - 1 : name[i] = "." /\ name[i + 1] = "."

\* C1: for every scriptName that contains '/', '\' or '..', the call
\* returns the invalid-script-name failure and performs no runtime operation
\* before returning: no resolvePath, no stat, no temp-directory creation, no
\* execution, no cleanup command.
C1_InvalidNameRejectedBeforeIO ==
  HasSeparatorOrDotDot(scriptName) =>
    /\ rpc \in {"validate", "done"}
    /\ rpc = "done" =>
         result = Err("Invalid script name: ${scriptName}. Script names must not contain path separators.",
                      scriptName)
    /\ ops = {}
    /\ engineCalls = <<>>
    /\ tempDirsOnDisk = {}
    /\ ~cleanupScheduled
    /\ rmCommands = {}

\* the call with the name ".." has returned
C1_Witness ==
  /\ scriptName = <<".", ".">>
  /\ rpc = "done"
  /\ ~result.success
  /\ ops = {}

\* the normalized path is the normalized directory, the runtime's separator
\* and at least nothing more
IsUnder(path, dir) ==
  LET np == normalizePath(path, workspacePath)
      nd == normalizePath(dir, workspacePath)
  IN  /\ Len(np) > Len(nd)
      /\ SubSeq(np, 1, Len(nd) + 1) = nd \o <<IF windows THEN "\\" ELSE "/">>

\* C2: the engine is invoked only if the normalized resolved script path
\* starts with the normalized resolved scripts directory followed by the
\* separator; when the resolved path lies outside that directory the call
\* returns the path-escape failure, allocates nothing and executes nothing.
C2_ExecutesOnlyContainedPath ==
  /\ (rpc \in {"stat", "mktemp", "build", "execute"} \/ "mktemp" \in ops
        \/ engineCalls # <<>>)
       => IsUnder(resolvedScriptPath, resolvedScriptsDir)
  /\ (rpc = "done" /\ resolvedFrom # "none"
        /\ ~IsUnder(resolvedScriptPath, resolvedScriptsDir))
       => /\ result = Err("Invalid script name: ${scriptName}. Script path escapes scripts directory.",
                          scriptName)
          /\ engineCalls = <<>>
          /\ tempDirsOnDisk = {}

\* a name that passes the name check resolved, through a link, into a
\* sibling directory whose name starts with the scripts directory's name:
\* rejected as an escape
C2_Witness ==
  /\ rpc = "done"
  /\ ~HasSeparatorOrDotDot(scriptName)
  /\ resolvedFrom = "canonical"
  /\ resolvedScriptsDir = Native(getScriptsDir(workspacePath))
  /\ resolvedScriptPath =
       Native(getScriptsDir(workspacePath) \o <<"2", "/", "f">>)
  /\ result.error = "Invalid script name: ${scriptName}. Script path escapes scripts directory."
  /\ engineCalls = <<>>

\* the engine returned (it did not throw) and the call returned its result
EngineReturned == rpc = "done" /\ result.data.hasToolResult

\* the persistentTempDir option was given and is not blank
RootSupplied ==
  persistentTempDir.given /\ Trim(persistentTempDir.value) # <<>>

\* the engine's result is a failure whose error text holds "OUTPUT OVERFLOW"
ReportsOverflow ==
  ~toolResult.success /\ Includes(toolResult.error, <<"OUTPUT OVERFLOW">>)

\* the directory the call's allocation command created
AllocatedTempDir == CreatedTempDir(PersistentBase(persistentTempDir))

\* deletion of the temp directory was scheduled: the rm -rf command was
\* issued
DeletionScheduled == cleanupScheduled /\ "rm" \in ops

\* C14 (as stated): after the engine returns, deletion of the temp directory
\* is skipped if and only if a persistent temp root was supplied, the policy
\* is tmpfile and the engine's result is a failure whose error text holds
\* the overflow marker; in every other case deletion is scheduled.
C14_SkipIffAllThree ==
  EngineReturned =>
    /\ ~DeletionScheduled <=>
         (RootSupplied /\ overflowPolicy = "tmpfile" /\ ReportsOverflow)
    /\ skipCleanup <=> ~DeletionScheduled

\* C14 with the root as the code computes it (trimmed, trailing slashes
\* stripped, and then not empty): this holds
C14_SkipIffEffectiveRoot ==
  EngineReturned =>
    /\ ~DeletionScheduled <=>
         /\ RootSupplied
         /\ StripTrailingSlashes(normalizeForShell(Trim(persistentTempDir.value)))
              # <<>>
         /\ overflowPolicy = "tmpfile"
         /\ ReportsOverflow
    /\ skipCleanup <=> ~DeletionScheduled

\* the root "/" was supplied, the policy is tmpfile and the engine reported
\* an overflow, and yet the rm -rf command was issued
C14_Witness ==
  /\ EngineReturned
  /\ persistentTempDir.given
  /\ persistentTempDir.value = <<"/">>
  /\ overflowPolicy = "tmpfile"
  /\ ReportsOverflow
  /\ DeletionScheduled

\* C15 (as stated): when the policy is tmpfile, a persistentTempDir is set
\* and the engine reports an output overflow, the spilled log (it lies in
\* the call's temp directory) exists when the call returns and no command
\* the call issued deletes it afterwards.
C15_OverflowLogKept ==
  (EngineReturned /\ overflowPolicy = "tmpfile" /\ RootSupplied
     /\ ReportsOverflow /\ toolResult.wroteLog) =>
    /\ AllocatedTempDir \in tempDirsOnDisk
    /\ rmCommands = {}
    /\ ~DeletionScheduled

\* C15 with the root as the code computes it: this holds
C15_OverflowLogKeptEffectiveRoot ==
  (EngineReturned /\ overflowPolicy = "tmpfile"
     /\ Truthy(PersistentBase(persistentTempDir))
     /\ ReportsOverflow /\ toolResult.wroteLog) =>
    /\ AllocatedTempDir \in tempDirsOnDisk
    /\ rmCommands = {}
    /\ ~DeletionScheduled

\* the root "/" was supplied, the engine saved the overflow log, the call
\* returned and its cleanup command has removed the directory with the log
C15_Witness ==
  /\ EngineReturned
  /\ persistentTempDir.given
  /\ persistentTempDir.value = <<"/">>
  /\ overflowPolicy = "tmpfile"
  /\ toolResult.wroteLog
  /\ AllocatedTempDir \notin tempDirsOnDisk

\* the call allocated a temp directory and has returned, and no overflow
\* occurred or no persistent root was supplied
ReturnedWithoutKeptLog ==
  /\ rpc = "done"
  /\ runtimeTempDir # <<>>
  /\ (~ReportsOverflow \/ ~RootSupplied)

C17_ResultFromEngine ==
  EngineReturned =>
    /\ result.success
    /\ result.data.exitCode = toolResult.exitCode
    /\ toolResult.success =>
         /\ result.data.stdout = toolResult.output
         /\ result.data.stderr = <<>>
    /\ ~toolResult.success =>
         /\ result.data.stderr = toolResult.error
         /\ result.data.stdout =
              (IF toolResult.hasOutput THEN toolResult.output ELSE <<>>)

\* a failed engine result with partial output was returned
C17_Witness ==
  /\ EngineReturned
  /\ ~toolResult.success
  /\ toolResult.hasOutput
  /\ result.data.stdout = <<"partial">>
  /\ result.data.stderr # <<>>

\* C18: a failure of the engine (overflow, timeout, non-zero exit) that the
\* engine returns is returned by the call as a successful Result whose
\* ScriptExecutionResult carries the failed tool result; the call neither
\* returns an Err nor throws.
C18_EngineFailureIsOk ==
  (toolResult # NoToolResult /\ ~toolResult.success) =>
    /\ rpc = "done"
    /\ result.success
    /\ result.data.hasToolResult
    /\ result.data.toolResult = toolResult
    /\ ~result.data.toolResult.success
    /\ execError = NoError

\* the engine reported a timeout and the call returned Ok
C18_Witness ==
  /\ rpc = "done"
  /\ toolResult.error = <<"Command exceeded timeout">>
  /\ ~toolResult.success
  /\ result.success

\* C19: when bashTool.execute throws, the call schedules the deletion of the
\* temp directory and returns the failure "Script execution failed:
\* <message>" with the message of what was thrown (String(value) for a
\* value that is no Error).
C19_ThrowIsCaught ==
  execError # NoError =>
    /\ rpc = "done"
    /\ ~result.success
    /\ result.error = "Script execution failed: ${message}"
    /\ result.value =
         (IF execError.kind = "undefined" THEN <<"undefined">>
          ELSE execError.text)
    /\ DeletionScheduled
    /\ ~skipCleanup

\* execute threw a string under the tmpfile policy with a persistent root;
\* the failure carries the string and the rm -rf command was issued
C19_Witness ==
  /\ execError.kind = "string"
  /\ result.value = execError.text
  /\ overflowPolicy = "tmpfile"
  /\ Truthy(PersistentBase(persistentTempDir))
  /\ DeletionScheduled

\* C20 (as stated): no raw exception reaches the caller, whichever runtime
\* operation faults, and no allocated temp directory is left without cleanup
\* or retention.
C20_NoRawException ==
  /\ result.error # "<uncaught exception>"
  /\ (rpc = "done" /\ runtimeTempDir # <<>>) =>
       (DeletionScheduled \/ skipCleanup)

\* every resolvePath of the call threw: the one of the fallback (not in a
\* try block) reached the caller
C20_Witness ==
  /\ rpc = "done"
  /\ result = Threw("resolvePath")
  /\ resolvedFrom = "none"

\* C23: once the containment check has passed and the stat of step 2 has
\* answered, a directory gives the is-a-directory failure and a throw gives
\* the not-found failure, whose message names .mux/scripts/<name> and the
\* chmod +x remedy; either way no temp directory has been allocated and
\* nothing has been executed.
C23_StatFailureRejects ==
  statResult \in {"threw", "directory"} =>
    /\ rpc = "done"
    /\ result =
         (IF statResult = "directory"
            THEN Err("Script is a directory: ${scriptName}", scriptName)
            ELSE Err("Script not found: .mux/scripts/${scriptName}. Create the script in your workspace and make it executable (chmod +x).",
                     scriptName))
    /\ "mktemp" \notin ops
    /\ "execute" \notin ops
    /\ tempDirResult = NoTempDirResult
    /\ runtimeTempDir = <<>>
    /\ tempDirsOnDisk = {}
    /\ engineCalls = <<>>
    /\ rmCommands = {}

\* the script resolved under the legacy directory, passed containment, and
\* the stat of step 2 found a directory
C23_Witness ==
  /\ rpc = "done"
  /\ resolvedFrom = "legacy"
  /\ statResult = "directory"
  /\ result.error = "Script is a directory: ${scriptName}"

\* C24: when the allocation command has returned with a non-zero exit code
\* or with nothing but white space on stdout, the call has returned a
\* failure (the command's stderr, or "mkdir failed", or the empty-directory
\* message), the engine was never called and no rm -rf was issued.
C24_AllocationFailureIsFatal ==
  (/\ tempDirResult.returned
   /\ \/ tempDirResult.exitCode # 0
      \/ Trim(tempDirResult.stdout) = <<>>) =>
    /\ rpc = "done"
    /\ ~result.success
    /\ result =
         (IF tempDirResult.exitCode # 0
            THEN Err("Failed to prepare script environment: ${tempDirResult.stderr || 'mkdir failed'}",
                     IF tempDirResult.stderr # <<>> THEN tempDirResult.stderr
                     ELSE <<"mkdir failed">>)
            ELSE Err("Failed to prepare script environment: runtime temp directory was empty",
                     <<>>))
    /\ "execute" \notin ops
    /\ engineCalls = <<>>
    /\ command = <<>>
    /\ ~cleanupScheduled
    /\ "rm" \notin ops
    /\ rmCommands = {}
    /\ tempDirsOnDisk = {}

\* the allocation command exited 0 and printed white space only
C24_Witness ==
  /\ rpc = "done"
  /\ tempDirResult.returned
  /\ tempDirResult.exitCode = 0
  /\ tempDirResult.stdout # <<>>
  /\ Trim(tempDirResult.stdout) = <<>>
  /\ ~result.success

\* the not-found failure of step 2
NotFound ==
  Err("Script not found: .mux/scripts/${scriptName}. Create the script in your workspace and make it executable (chmod +x).",
      scriptName)

\* both attempts of the resolution failed and the call has returned
BothAttemptsFailed ==
  /\ rpc = "done"
  /\ "resolvePath" \in ops
  /\ resolvedFrom \notin {"canonical", "legacy"}

\* C21 (as stated): the canonical directory has priority.  (a) The legacy
\* attempt is made only when the canonical script did not resolve and stat
\* (resolvedScriptPath is assigned by the canonical attempt exactly when it
\* did).  (b) When the legacy attempt succeeded, the path executed is a
\* resolution of the legacy path and it is contained in the resolved legacy
\* directory.  (c) When both attempts failed, the call fails with the
\* not-found error naming the canonical location.
C21_CanonicalPriority ==
  /\ rpc = "legacy" => resolvedScriptPath = <<>>
  /\ (resolvedFrom = "legacy" /\ engineCalls # <<>>) =>
       /\ resolvedScriptPath \in
            ResolvePathAnswers(getLegacyScriptPath(workspacePath, scriptName))
       /\ resolvedScriptsDir \in
            ResolvePathAnswers(getLegacyScriptsDir(workspacePath))
       /\ Contained(resolvedScriptPath, resolvedScriptsDir)
       /\ engineCalls[1].script = BuildCommand(resolvedScriptPath, args)
  /\ BothAttemptsFailed => result = NotFound

\* both attempts failed after a stat was tried, and the resolution of the
\* canonical paths that follows threw: the caller got the exception, not the
\* not-found failure
C21_Witness ==
  /\ BothAttemptsFailed
  /\ "stat" \in ops
  /\ resolvedFrom = "none"
  /\ result = Threw("resolvePath")

\* the script path and the scripts directory of a location
ScriptPathUnder(from) ==
  IF from = "legacy" THEN getLegacyScriptPath(workspacePath, scriptName)
  ELSE getScriptPath(workspacePath, scriptName)

ScriptsDirUnder(from) ==
  IF from = "legacy" THEN getLegacyScriptsDir(workspacePath)
  ELSE getScriptsDir(workspacePath)

\* the script was found under the location and the runtime resolved the
\* location's paths to themselves (no symbolic link in the way)
PlainlyResolved(from) ==
  /\ resolvedFrom = from
  /\ resolvedScriptPath = Native(ScriptPathUnder(from))
  /\ resolvedScriptsDir = Native(ScriptsDirUnder(from))

\* C22: a script (a file has a non-empty name) found under the legacy
\* directory is handled as one found under the canonical directory, on a runtime with either kind of
\* separator: it passes containment; once stat found a file and a temp
\* directory was allocated, the engine is called once, in the workspace,
\* with the quoted path of the script where it is; and the stdout and exit
\* code returned are those of the engine's answer.  So the same script gives
\* the same stdout and exit code in both locations.
C22_LegacyRunsAsCanonical ==
  \A from \in {"canonical", "legacy"} :
    (scriptName # <<>> /\ PlainlyResolved(from) /\ rpc = "done") =>
      /\ result.error # "Invalid script name: ${scriptName}. Script path escapes scripts directory."
      /\ statResult # "none"
      /\ (statResult = "file" /\ runtimeTempDir # <<>>) =>
           /\ Len(engineCalls) = 1
           /\ engineCalls[1].script =
                BuildCommand(Native(ScriptPathUnder(from)), args)
           /\ engineCalls[1].cwd = workspacePath
           /\ engineCalls[1].timeout_secs = DefaultTimeoutSecs
           /\ engineCalls[1].overflow_policy = overflowPolicy
      /\ EngineReturned =>
           /\ result.success
           /\ result.data.exitCode = toolResult.exitCode
           /\ result.data.stdout =
                (IF toolResult.success \/ toolResult.hasOutput
                   THEN toolResult.output ELSE <<>>)

\* a script found under the legacy directory ran and succeeded
C22_Witness ==
  /\ rpc = "done"
  /\ PlainlyResolved("legacy")
  /\ result.success
  /\ toolResult.success
  /\ result.data.stdout = <<"out">>
  /\ result.data.exitCode = 0

\* the engine reported that the timeout expired
TimedOut == toolResult.error = <<"Command exceeded timeout">>

\* the engine reported that the abort signal cancelled the command
Aborted == toolResult.error = <<"Command aborted">>

\* the call has completed with a failed tool result inside an Ok, nothing
\* was thrown, and the temp directory's deletion was scheduled
FailedNotThrown ==
  /\ rpc = "done"
  /\ result.success
  /\ result.error # "<uncaught exception>"
  /\ execError = NoError
  /\ ~result.data.toolResult.success
  /\ result.data.toolResult = toolResult
  /\ result.data.exitCode = toolResult.exitCode
  /\ result.data.stderr = toolResult.error
  /\ DeletionScheduled
  /\ ~skipCleanup

\* C28: a run ended by the abort signal and a run ended by the timeout give
\* the caller the same kind of outcome: the call completes with a failed
\* result that was returned, not thrown, and the temp directory's deletion
\* is scheduled in both cases (under either overflow policy, with or without
\* a persistent root).
C28_AbortAsTimeout == (TimedOut \/ Aborted) => FailedNotThrown

\* the abort signal ended a run under the tmpfile policy with a persistent
\* root
C28_Witness ==
  /\ Aborted
  /\ rpc = "done"
  /\ overflowPolicy = "tmpfile"
  /\ Truthy(PersistentBase(persistentTempDir))
  /\ rmCommands # {}

\* C26: cleanup is fire-and-forget.  The step that issues rm -rf is the step
\* in which the call returns (the command is still pending when the caller
\* has the result: the call does not wait for it), and the step in which a
\* pending rm -rf finishes, with success or with failure, changes neither
\* the result nor anything else of the call.
C26_CleanupFireAndForget ==
  [][/\ (rmCommands' # rmCommands /\ rmCommands \subseteq rmCommands') =>
          /\ rpc # "done"
          /\ rpc' = "done"
          /\ result' # NoResult
          /\ rmCommands' = rmCommands \cup {SafeTempDir(runtimeTempDir)}
     /\ (rmCommands' # rmCommands /\ rmCommands' \subseteq rmCommands) =>
          /\ rpc = "done"
          /\ UNCHANGED <<rpc, result, toolResult, execError, skipCleanup,
                         cleanupScheduled, engineCalls>>]_vars

\* the call returned a result, its rm -rf has failed: the directory is still
\* there and the result is the engine's
C26_Witness ==
  /\ rpc = "done"
  /\ result.success
  /\ cleanupScheduled
  /\ rmCommands = {}
  /\ runtimeTempDir \in tempDirsOnDisk

\* C25: POSIX word splitting of the command built gives the resolved path
\* followed by the arguments, in order and unchanged, whatever quotes,
\* blanks, backslashes, backticks, $ and ; they hold.
C25_SplitGivesPathAndArgs ==
  command # <<>> => ShellSplit(command) = <<resolvedScriptPath>> \o args

\* a command was built from a path with a single quote in it and two
\* arguments, the first with a single quote and a backslash
C25_Witness ==
  /\ command # <<>>
  /\ Includes(resolvedScriptPath, <<"'">>)
  /\ Len(args) = 2
  /\ args[1] = <<"'", "\\">>
  /\ args[2] = <<"a", " ", "'", ";">>

\* this call still uses its temp directory, or retains its overflow log
ThisNeedsTempDir == runtimeTempDir # <<>> /\ (rpc # "done" \/ skipCleanup)

\* the second call still uses its temp directory, or retains its log
OtherNeedsTempDir ==
  other.runtimeTempDir # <<>> /\ (other.pc # "done" \/ other.skipCleanup)

\* C27: of two concurrent calls, also with the same persistent root, each
\* has its own temp directory while it needs one, and the directory of a
\* call that still runs, and the directory kept for an overflow log, stay on
\* the disk whatever cleanup the other call has issued and the runtime run.
C27_ConcurrentCallsApart ==
  /\ (ThisNeedsTempDir /\ OtherNeedsTempDir) =>
       runtimeTempDir # other.runtimeTempDir
  /\ ThisNeedsTempDir => runtimeTempDir \in tempDirsOnDisk
  /\ OtherNeedsTempDir => other.runtimeTempDir \in tempDirsOnDisk

\* two calls under the same persistent root: the second one's cleanup has
\* run and removed its directory, this one's overflow log is retained
C27_Witness ==
  /\ rpc = "done"
  /\ other.pc = "done"
  /\ Truthy(PersistentBase(persistentTempDir))
  /\ PersistentBase(persistentTempDir) = PersistentBase(other.persistentTempDir)
  /\ skipCleanup
  /\ other.cleanupScheduled
  /\ rmCommands = {}
  /\ other.runtimeTempDir \notin tempDirsOnDisk
  /\ runtimeTempDir \in tempDirsOnDisk

\* the failures of validation: invalid name, path escape, directory, not
\* found
ValidationFailures ==
  {"Invalid script name: ${scriptName}. Script names must not contain path separators.",
   "Invalid script name: ${scriptName}. Script path escapes scripts directory.",
   "Script is a directory: ${scriptName}",
   "Script not found: .mux/scripts/${scriptName}. Create the script in your workspace and make it executable (chmod +x)."}

\* C33: a call that fails validation has created no temp directory, has not
\* called the engine and has issued no cleanup command; and the checks come
\* in order: the stat of step 2 is made only on a valid name and a contained
\* path, the allocation only after the stat found a file, the engine call
\* only after the allocation gave a directory.
C33_ValidationFailureHasNoEffect ==
  /\ []((rpc = "done" /\ ~result.success /\ result.error \in ValidationFailures) =>
          /\ tempDirResult = NoTempDirResult
          /\ runtimeTempDir = <<>>
          /\ tempDirsOnDisk = {}
          /\ engineCalls = <<>>
          /\ ~cleanupScheduled
          /\ rmCommands = {}
          /\ ops \subseteq {"resolvePath", "stat"})
  /\ [][/\ statResult' # statResult =>
             /\ ~Includes(scriptName, <<"/">>)
             /\ ~Includes(scriptName, <<"\\">>)
             /\ ~Includes(scriptName, <<".", ".">>)
             /\ StartsWith(normalizePath(resolvedScriptPath, workspacePath),
                           Append(normalizePath(resolvedScriptsDir,
                                                workspacePath),
                                  Separator(normalizePath(resolvedScriptsDir,
                                                          workspacePath))))
             /\ tempDirResult = NoTempDirResult
        /\ tempDirResult' # tempDirResult =>
             /\ statResult = "file"
             /\ engineCalls = <<>>
        /\ engineCalls' # engineCalls =>
             /\ engineCalls = <<>>
             /\ statResult = "file"
             /\ tempDirResult.returned
             /\ tempDirResult.exitCode = 0
             /\ runtimeTempDir # <<>>
             /\ runtimeTempDir \in tempDirsOnDisk
             /\ rmCommands = {}]_vars

\* a call rejected for a path that escapes the scripts directory, after the
\* runtime resolved the script's path
C33_Witness ==
  /\ rpc = "done"
  /\ result.error = "Invalid script name: ${scriptName}. Script path escapes scripts directory."
  /\ resolvedScriptPath # <<>>
  /\ "resolvePath" \in ops
  /\ tempDirsOnDisk = {}

\* C34: in one call rm -rf is issued at most once (the step that issues it
\* issues one command and sets cleanupScheduled, which was false, and once
\* the flag is set it stays set and nothing more is issued); and a call that
\* allocated a temp directory and reached the engine ends with exactly one
\* of deletion scheduled and retention chosen.
C34_OneCleanupDecision ==
  /\ [][/\ ~(rmCommands' \subseteq rmCommands) =>
             /\ ~cleanupScheduled
             /\ cleanupScheduled'
             /\ ~skipCleanup'
             /\ rmCommands' = rmCommands \cup {SafeTempDir(runtimeTempDir)}
        /\ cleanupScheduled =>
             (cleanupScheduled' /\ rmCommands' \subseteq rmCommands)
        /\ skipCleanup => skipCleanup']_vars
  /\ []((rpc = "done" /\ runtimeTempDir # <<>> /\ engineCalls # <<>>) =>
          /\ Len(engineCalls) = 1
          /\ cleanupScheduled # skipCleanup
          /\ cleanupScheduled <=> "rm" \in ops
          /\ skipCleanup => rmCommands = {})

\* the engine threw under the tmpfile policy with a persistent root: deletion
\* was scheduled once, retention was not chosen
C34_Witness ==
  /\ rpc = "done"
  /\ execError # NoError
  /\ overflowPolicy = "tmpfile"
  /\ Truthy(PersistentBase(persistentTempDir))
  /\ cleanupScheduled
  /\ ~skipCleanup
  /\ Cardinality(rmCommands) = 1

(***************************************************************************)
(* Thinking policy: the thinking levels a model allows, and the clamping   *)
(* of a requested level to them.                                           *)
(***************************************************************************)
\* most applications of enforceThinkingPolicy in a row
MaxApplications == 2

\* ThinkingLevel
ThinkingLevels == {"off", "low", "medium", "high"}

\* the model strings: one or two for each branch of the policy
\* (openai:gpt-5-pro, openai:gpt-5-pro-mini, google:gemini-3-pro, xai:grok-4,
\* xai:grok-code, anthropic:claude, gpt-5-pro, or:xai:grok-4)
ModelStrings ==
  {<<"o", "p", "e", "n", "a", "i", ":", "g", "p", "t", "-", "5", "-", "p",
     "r", "o">>,
   <<"o", "p", "e", "n", "a", "i", ":", "g", "p", "t", "-", "5", "-", "p",
     "r", "o", "-", "m", "i", "n", "i">>,
   <<"g", "o", "o", "g", "l", "e", ":", "g", "e", "m", "i", "n", "i", "-",
     "3", "-", "p", "r", "o">>,
   <<"x", "a", "i", ":", "g", "r", "o", "k", "-", "4">>,
   <<"x", "a", "i", ":", "g", "r", "o", "k", "-", "c", "o", "d", "e">>,
   <<"a", "n", "t", "h", "r", "o", "p", "i", "c", ":", "c", "l", "a", "u",
     "d", "e">>,
   <<"g", "p", "t", "-", "5", "-", "p", "r", "o">>,
   <<"o", "r", ":", "x", "a", "i", ":", "g", "r", "o", "k", "-", "4">>}

\* s.indexOf(c), counted from 0; -1 when c is not in s
IndexOf(s, c) ==
  IF \E i \in 1 .. Len(s) : s[i] = c
    THEN (CHOOSE i \in 1 .. Len(s) :
            s[i] = c /\ \A j \in 1 .. i - 1 : s[j] # c) - 1
    ELSE -1

\* s.slice(from, to), 0 <= from <= to <= s.length
Slice(s, from, to) == SubSeq(s, from + 1, to)

\* an entry of models.json, as far as the policy reads it
NoEntry == "no entry"
ReasoningEntries == {"false", "true", "absent"}

\* the keys getModelMetadata looks up, in order
LookupKeys(model) ==
  LET colonIndex == IndexOf(model, ":")
      provider == IF colonIndex # -1 THEN Slice(model, 0, colonIndex) ELSE <<>>
      modelName == IF colonIndex # -1
                     THEN Slice(model, colonIndex + 1, Len(model))
                     ELSE model
  IN  IF provider # <<>>
        THEN <<modelName, provider \o <<"/">> \o modelName>>
        ELSE <<modelName>>

\* getModelMetadata(model)?.supports_reasoning: of the first key that has an
\* entry; NoEntry when none has
getModelMetadata(model) ==
  LET keys == LookupKeys(model)
      found == {i \in 1 .. Len(keys) : keys[i] \in DOMAIN modelsData}
  IN  IF found = {}
        THEN NoEntry
        ELSE modelsData[keys[CHOOSE i \in found : \A j \in found : i <= j]]

\* the contents of models.json that bear on one model: no entry, an entry
\* under either key, under both, or under the whole model string
MetadataFiles(model) ==
  LET keys == LookupKeys(model)
      underFirst == {[k \in {keys[1]} |-> r] : r \in ReasoningEntries}
      underLast ==
        {[k \in {keys[Len(keys)]} |-> r] : r \in ReasoningEntries}
      underBoth ==
        {[k \in {keys[1], keys[Len(keys)]} |->
            IF k = keys[1] THEN "true" ELSE "false"]}
      underWhole == {[k \in {model} |-> "false"]}
  IN  {[k \in {} |-> NoEntry]} \cup underFirst \cup underLast
        \cup underBoth \cup underWhole

\* getThinkingPolicyForModel(model): the allowed levels, in order
getThinkingPolicyForModel(model) ==
  IF /\ StartsWith(model,
                   <<"o", "p", "e", "n", "a", "i", ":",
                     "g", "p", "t", "-", "5", "-", "p", "r", "o">>)
        /\ ~Includes(model, <<"-", "m", "i", "n", "i">>)
    THEN <<"high">>
  ELSE IF Includes(model, <<"g", "e", "m", "i", "n", "i", "-", "3">>)
    THEN <<"low", "high">>
  ELSE IF /\ StartsWith(model, <<"x", "a", "i", ":", "g", "r", "o", "k", "-">>)
          /\ ~Includes(model, <<"g", "r", "o", "k", "-", "c", "o", "d", "e">>)
    THEN <<"off", "high">>
  ELSE IF getModelMetadata(model) = "false"
    THEN <<"off">>
  ELSE <<"off", "low", "medium", "high">>

\* allowed.includes(level)
Allows(allowed, level) == \E i \in 1 .. Len(allowed) : allowed[i] = level

\* faulty variant: the lowest reasoning level available is picked
WorstAvailable(allowed) ==
  IF Allows(allowed, "low") THEN "low"
  ELSE IF Allows(allowed, "medium") THEN "medium"
  ELSE IF Allows(allowed, "high") THEN "high"
  ELSE allowed[1]

\* the level returned for a request that is not allowed and is not "off":
\* high, medium or low, the first of them allowed, else allowed[0]
BestAvailable(allowed) ==
  IF Allows(allowed, "high") THEN "high"
  ELSE IF Allows(allowed, "medium") THEN "medium"
  ELSE IF Allows(allowed, "low") THEN "low"
  ELSE allowed[1]

\* faulty variant: a reasoning request that is not allowed becomes "high"
\* whatever the model allows
enforceThinkingPolicyAlwaysHigh(model, level) ==
  LET allowed == getThinkingPolicyForModel(model)
  IN  IF Allows(allowed, level) THEN level
      ELSE IF level # "off" THEN "high"
      ELSE allowed[1]

\* enforceThinkingPolicy(model, level)
enforceThinkingPolicy(model, level) ==
  LET allowed == getThinkingPolicyForModel(model)
  IN  IF Allows(allowed, level) THEN level
      ELSE IF level # "off" THEN BestAvailable(allowed)
      ELSE allowed[1]

ThinkingInit ==
  /\ modelString \in ModelStrings
  /\ modelsData \in MetadataFiles(modelString)
  /\ requested \in ThinkingLevels
  /\ enforced = <<>>

\* the level passed to the n-th application: the level requested, then the
\* result of the application before
LevelPassed(n) == IF n = 1 THEN requested ELSE enforced[n - 1]

\* one application of enforceThinkingPolicy, to the level requested or to
\* the result of the application before
Enforce ==
  /\ Len(enforced) < MaxApplications
  /\ enforced' =
       Append(enforced,
              enforceThinkingPolicy(modelString, LevelPassed(Len(enforced) + 1)))
  /\ UNCHANGED <<modelString, modelsData, requested>>
  /\ UNCHANGED notThinkingVars

ThinkingNext == Enforce

\* the reasoning levels, from the lowest
ReasoningRank(level) ==
  CASE level = "low" -> 1 [] level = "medium" -> 2 [] level = "high" -> 3
    [] OTHER -> 0

\* the levels of a policy
LevelsOf(allowed) == {allowed[i] : i \in 1 .. Len(allowed)}

\* C36: every application of enforceThinkingPolicy returns the level passed
\* when the model's policy allows it; otherwise, for a level other than
\* "off", the highest of high, medium and low the policy allows; and the
\* first level of the policy when neither applies.
C36_ClampsToPolicy ==
  \A n \in 1 .. Len(enforced) :
    LET allowed == getThinkingPolicyForModel(modelString)
        reasoning == LevelsOf(allowed) \cap {"high", "medium", "low"}
    IN  IF LevelPassed(n) \in LevelsOf(allowed)
          THEN enforced[n] = LevelPassed(n)
        ELSE IF LevelPassed(n) # "off" /\ reasoning # {}
          THEN /\ enforced[n] \in reasoning
               /\ \A l \in reasoning : ReasoningRank(l) <= ReasoningRank(enforced[n])
        ELSE enforced[n] = allowed[1]

\* a medium request on a model that allows low and high only: high
C36_Witness ==
  /\ getThinkingPolicyForModel(modelString) = <<"low", "high">>
  /\ requested = "medium"
  /\ enforced # <<>>
  /\ enforced[1] = "high"

\* C37: every result of enforceThinkingPolicy is a level of the model's
\* policy, and enforcing that result again returns it unchanged.
C37_ResultAllowedAndIdempotent ==
  \A n \in 1 .. Len(enforced) :
    /\ enforced[n] \in LevelsOf(getThinkingPolicyForModel(modelString))
    /\ n > 1 => enforced[n] = enforced[n - 1]

\* a model models.json marks as not reasoning: a low request becomes off,
\* and off stays off when enforced again
C37_Witness ==
  /\ getThinkingPolicyForModel(modelString) = <<"off">>
  /\ requested = "low"
  /\ enforced = <<"off", "off">>

(***************************************************************************)
(* Draft workspace settings: the trunk branch a new workspace forks from.  *)
(* useDraftWorkspaceSettings holds the persisted choice and repairs it in  *)
(* two effects; CreationControls is the form that changes it.              *)
(***************************************************************************)
\* longest branch list
MaxBranches == 2
\* most changes of the hook's arguments (branch list, recommendation)
MaxBranchLoads == 2
\* most choices made in the creation controls
MaxControlsUsed == 2

DEFAULT_TRUNK_BRANCH == "main"
TRUNK_SELECTION_DEFAULT == "default"
TRUNK_SELECTION_CUSTOM == "custom"

\* the branch names: the default one and two others
BranchNames == {DEFAULT_TRUNK_BRANCH, "dev", "rel"}

\* recommendedTrunk = null (no branch bears this name)
NullTrunk == "~null"

\* the branch lists: no name twice, MaxBranches names at most
BranchLists ==
  {list \in UNION {[1 .. n -> BranchNames] : n \in 0 .. MaxBranches} :
     \A i, j \in 1 .. Len(list) : list[i] = list[j] => i = j}

\* branches.includes(branch)
BranchesInclude(list, branch) == \E i \in 1 .. Len(list) : list[i] = branch

\* first effect: customTrunkBranch && branches.includes(customTrunkBranch)
CurrentIsValid ==
  customTrunkBranch # "" /\ BranchesInclude(branches, customTrunkBranch)

\* first effect: the recommendation if it is in the list, else branches[0]
Fallback ==
  IF recommendedTrunk # NullTrunk /\ BranchesInclude(branches, recommendedTrunk)
    THEN recommendedTrunk
    ELSE branches[1]

\* the first effect has a state update to make
CustomTrunkPending == branches # <<>> /\ ~CurrentIsValid

\* the second effect has a state update to make
SelectionPending ==
  /\ branches # <<>>
  /\ trunkSelection # TRUNK_SELECTION_CUSTOM
  /\ ~BranchesInclude(branches, DEFAULT_TRUNK_BRANCH)

\* first effect, run when it updates the state
InitializeCustomTrunkBranch ==
  /\ CustomTrunkPending
  /\ customTrunkBranch' = Fallback
  /\ UNCHANGED <<branches, recommendedTrunk, trunkSelection, branchLoads,
                 controlsUsed>>
  /\ UNCHANGED notDraftVars

\* second effect, run when it updates the state
FallBackToCustomSelection ==
  /\ SelectionPending
  /\ trunkSelection' = TRUNK_SELECTION_CUSTOM
  /\ UNCHANGED <<branches, recommendedTrunk, customTrunkBranch, branchLoads,
                 controlsUsed>>
  /\ UNCHANGED notDraftVars

\* CreationControls: defaultUnavailable
DefaultUnavailable ==
  branches # <<>> /\ ~BranchesInclude(branches, DEFAULT_TRUNK_BRANCH)

\* faulty variant: the selection is passed on whatever the branch list
handleTrunkSelectionChangeUnguarded(selection) == selection

\* CreationControls.handleTrunkSelectionChange: the selection afterwards
handleTrunkSelectionChange(selection) ==
  IF selection = TRUNK_SELECTION_DEFAULT /\ DefaultUnavailable
    THEN trunkSelection
    ELSE selection

\* the "From:" select is changed
ChangeTrunkSelection ==
  /\ controlsUsed < MaxControlsUsed
  /\ \E selection \in {TRUNK_SELECTION_DEFAULT, TRUNK_SELECTION_CUSTOM} :
       trunkSelection' = handleTrunkSelectionChange(selection)
  /\ controlsUsed' = controlsUsed + 1
  /\ UNCHANGED <<branches, recommendedTrunk, customTrunkBranch, branchLoads>>
  /\ UNCHANGED notDraftVars

\* the custom branch select, shown for a custom selection and a non-empty
\* list, is changed to one of its options
ChangeCustomTrunkBranch ==
  /\ controlsUsed < MaxControlsUsed
  /\ trunkSelection = TRUNK_SELECTION_CUSTOM
  /\ branches # <<>>
  /\ \E i \in 1 .. Len(branches) : customTrunkBranch' = branches[i]
  /\ controlsUsed' = controlsUsed + 1
  /\ UNCHANGED <<branches, recommendedTrunk, trunkSelection, branchLoads>>
  /\ UNCHANGED notDraftVars

\* the hook is rendered with another branch list or recommendation
LoadBranches ==
  /\ branchLoads < MaxBranchLoads
  /\ branches' \in BranchLists
  /\ recommendedTrunk' \in BranchNames \cup {NullTrunk}
  /\ <<branches', recommendedTrunk'>> # <<branches, recommendedTrunk>>
  /\ branchLoads' = branchLoads + 1
  /\ UNCHANGED <<customTrunkBranch, trunkSelection, controlsUsed>>
  /\ UNCHANGED notDraftVars

\* settings.customTrunkBranch
resolvedCustomBranch ==
  IF customTrunkBranch # "" THEN customTrunkBranch
  ELSE IF recommendedTrunk # NullTrunk
    THEN (IF recommendedTrunk # "" THEN recommendedTrunk
          ELSE DEFAULT_TRUNK_BRANCH)
  ELSE IF branches # <<>> /\ branches[1] # "" THEN branches[1]
  ELSE DEFAULT_TRUNK_BRANCH

\* settings.trunkBranch
effectiveTrunkBranch ==
  IF /\ trunkSelection = TRUNK_SELECTION_DEFAULT
     /\ (branches = <<>> \/ BranchesInclude(branches, DEFAULT_TRUNK_BRANCH))
    THEN DEFAULT_TRUNK_BRANCH
    ELSE resolvedCustomBranch

\* the persisted values may be any left by an earlier session
DraftInit ==
  /\ branches \in BranchLists
  /\ recommendedTrunk \in BranchNames \cup {NullTrunk}
  /\ customTrunkBranch \in BranchNames \cup {""}
  /\ trunkSelection \in {TRUNK_SELECTION_DEFAULT, TRUNK_SELECTION_CUSTOM}
  /\ branchLoads = 0
  /\ controlsUsed = 0

DraftNext ==
  \/ InitializeCustomTrunkBranch
  \/ FallBackToCustomSelection
  \/ ChangeTrunkSelection
  \/ ChangeCustomTrunkBranch
  \/ LoadBranches

\* neither effect has an update to make
EffectsAtRest == ~CustomTrunkPending /\ ~SelectionPending

\* the custom branch is listed, and the selection is custom if main is not
Settled ==
  /\ BranchesInclude(branches, customTrunkBranch)
  /\ ~BranchesInclude(branches, DEFAULT_TRUNK_BRANCH) =>
       trunkSelection = TRUNK_SELECTION_CUSTOM

\* C39: with a non-empty branch list the two effects come to rest; at rest
\* the custom trunk branch is in the list, the selection is "custom" if
\* "main" is not in the list, and the effective trunk branch is in the list;
\* and no step of the creation controls taken while "main" is not in the
\* list turns the selection into "default".
C39_DraftSettingsConverge ==
  /\ (branches # <<>>) ~> EffectsAtRest
  /\ [](EffectsAtRest /\ branches # <<>> =>
          Settled /\ BranchesInclude(branches, effectiveTrunkBranch))
  /\ [][(controlsUsed' # controlsUsed /\ DefaultUnavailable) =>
          (trunkSelection' = TRUNK_SELECTION_DEFAULT =>
             trunkSelection = TRUNK_SELECTION_DEFAULT)]_vars

\* a list without "main" loaded over a default selection and a stale custom
\* branch: both effects have run, and the controls were used afterwards
C39_Witness ==
  /\ branchLoads > 0
  /\ branches = <<"dev", "rel">>
  /\ recommendedTrunk = "rel"
  /\ customTrunkBranch = "rel"
  /\ trunkSelection = TRUNK_SELECTION_CUSTOM
  /\ effectiveTrunkBranch = "rel"
  /\ controlsUsed = MaxControlsUsed
  /\ EffectsAtRest

BrowserIdle ==
  /\ modelString = <<"m">>
  /\ modelsData = [k \in {} |-> NoEntry]
  /\ requested = "off"
  /\ enforced = <<>>
  /\ branches = <<>>
  /\ recommendedTrunk = NullTrunk
  /\ customTrunkBranch = ""
  /\ trunkSelection = TRUNK_SELECTION_DEFAULT
  /\ branchLoads = 0
  /\ controlsUsed = 0

(***************************************************************************)
(* Specifications: one per component, the others idle.                     *)
(***************************************************************************)
BufferIdle == BufferInit /\ capacity = 1

TerminateIdle ==
  TerminateInit /\ pid = ChildPid /\ isRunning /\ ~groupGone

RunnerIdle ==
  /\ RunnerInit
  /\ other = NoOtherCall
  /\ ~windows
  /\ scriptName = <<"a">>
  /\ args = <<>>
  /\ overflowPolicy = "truncate"
  /\ ~persistentTempDir.given

InitBuffer == BufferInit /\ EventsInit /\ BrowserIdle /\ TerminateIdle /\ RunnerIdle

SpecBuffer == InitBuffer /\ [][BufferNext]_vars

InitEvents == BufferIdle /\ EventsInit /\ BrowserIdle /\ TerminateIdle /\ RunnerIdle

SpecEvents == InitEvents /\ [][EventsNext]_vars

InitTerminate == BufferIdle /\ EventsInit /\ BrowserIdle /\ TerminateInit /\ RunnerIdle

SpecTerminate == InitTerminate /\ [][TerminateNext]_vars

\* The whole handle of a running child: terminate() calls, the child, the
\* clock, dispose(), and up to MaxHandleOps emit and registration calls made
\* once the handle is terminated and no terminate() call is pending.  The timers fire and the continuation of
\* an awaiting call runs (the event loop is fair to both).
InitLifecycle == BufferIdle /\ EventsInit /\ BrowserIdle /\ TerminateIdle /\ RunnerIdle

HandleOperation ==
  /\ terminated
  /\ \A c \in TCalls : tcall[c].pc # "grace"
  /\ EventCount < MaxHandleOps
  /\ EventsNext

\* the terminate() calls of this specification: two, overlapping or not
LifecycleCalls == {c \in TCalls : c <= 2}

LifecycleNext ==
  \/ \E c \in LifecycleCalls : TerminateStart(c)
  \/ \E c \in LifecycleCalls : TerminateResume(c)
  \/ Tick
  \/ GroupVanishes
  \/ Dispose
  \/ HandleOperation

SpecLifecycle ==
  /\ InitLifecycle
  /\ [][LifecycleNext]_vars
  /\ WF_vars(Tick)
  /\ \A c \in LifecycleCalls : WF_vars(TerminateResume(c))

InitRunner ==
  BufferIdle /\ EventsInit /\ BrowserIdle /\ TerminateIdle /\ RunnerInit
    /\ other = NoOtherCall

\* The command building alone, on every argument up to MaxArgLen characters
\* over CommandChars: the call as it stands after steps 1 to 3, with a
\* script found under the canonical directory.
CommandInit ==
  /\ rpc = "build"
  /\ windows \in BOOLEAN
  /\ scriptName \in CommandNames
  /\ args \in CommandArgLists
  /\ overflowPolicy = "truncate"
  /\ persistentTempDir = [given |-> FALSE, value |-> <<>>]
  /\ resolvedScriptPath = Native(getScriptPath(workspacePath, scriptName))
  /\ resolvedScriptsDir = Native(getScriptsDir(workspacePath))
  /\ resolvedFrom = "canonical"
  /\ statResult = "file"
  /\ tempDirResult =
       [returned |-> TRUE, exitCode |-> 0,
        stdout |-> Append(CreatedTempDir(Undefined), "\n"), stderr |-> <<>>]
  /\ command = <<>>
  /\ runtimeTempDir = CreatedTempDir(Undefined)
  /\ skipCleanup = FALSE
  /\ cleanupScheduled = FALSE
  /\ result = NoResult
  /\ ops = {"resolvePath", "stat", "mktemp"}
  /\ engineCalls = <<>>
  /\ toolResult = NoToolResult
  /\ execError = NoError
  /\ rmCommands = {}
  /\ tempDirsOnDisk = {CreatedTempDir(Undefined)}

InitCommand ==
  BufferIdle /\ EventsInit /\ BrowserIdle /\ TerminateIdle /\ CommandInit
    /\ other = NoOtherCall

\* Two concurrent calls on one runtime: the call of SpecRunner (one script
\* name, no arguments, POSIX paths) and a second call past its step 2, each
\* with its own options; "/p" and " /p//" name the same persistent root.
ConcurrentRoots ==
  {[given |-> FALSE, value |-> <<>>],
   [given |-> TRUE, value |-> <<"/", "p">>],
   [given |-> TRUE, value |-> <<" ", "/", "p", "/", "/">>]}

InitConcurrent ==
  BufferIdle /\ EventsInit /\ BrowserIdle /\ TerminateIdle /\ RunnerInit
    /\ ~windows
    /\ scriptName = <<"a">>
    /\ args = <<>>
    /\ persistentTempDir \in ConcurrentRoots
    /\ other \in {[NoOtherCall EXCEPT !.pc = "mktemp",
                                      !.persistentTempDir = root,
                                      !.overflowPolicy = policy] :
                    root \in ConcurrentRoots,
                    policy \in {"truncate", "tmpfile"}}

ConcurrentNext == RunnerNext \/ OtherAllocate \/ OtherExecute

SpecConcurrent == InitConcurrent /\ [][ConcurrentNext]_vars

CommandNext == BuildCommandStep

SpecCommand == InitCommand /\ [][CommandNext]_vars

SpecRunner == InitRunner /\ [][RunnerNext]_vars

\* The call under a runtime that runs every cleanup command issued, with
\* success: rm -rf stays pending until the runtime has run it.
\* (One script name and no arguments: neither bears on the cleanup.)
InitRunnerFair == InitRunner /\ scriptName = <<"a">> /\ args = <<>>

SpecRunnerFair ==
  /\ InitRunnerFair
  /\ [][RunnerNextCleanupRuns]_vars
  /\ WF_vars(RunCleanup)

\* enforceThinkingPolicy on every model string of ModelStrings, every level
\* and every content of models.json that bears on the model
BrowserRest ==
  BufferIdle /\ EventsInit /\ TerminateIdle /\ RunnerIdle

InitThinking ==
  /\ BrowserRest
  /\ ThinkingInit
  /\ branches = <<>>
  /\ recommendedTrunk = NullTrunk
  /\ customTrunkBranch = ""
  /\ trunkSelection = TRUNK_SELECTION_DEFAULT
  /\ branchLoads = 0
  /\ controlsUsed = 0

SpecThinking == InitThinking /\ [][ThinkingNext]_vars

\* The draft settings of one project: React runs an effect whose
\* dependencies changed after the render, so an effect with an update to
\* make does make it.
InitDraft ==
  /\ BrowserRest
  /\ DraftInit
  /\ modelString = <<"m">>
  /\ modelsData = [k \in {} |-> NoEntry]
  /\ requested = "off"
  /\ enforced = <<>>

SpecDraft ==
  /\ InitDraft
  /\ [][DraftNext]_vars
  /\ WF_vars(InitializeCustomTrunkBranch)
  /\ WF_vars(FallBackToCustomSelection)

====
